---- MODULE Spec2Model ----
(***************************************************************************)
(* Model of the hybrid L2/L3 limit order book (engine/order_book).         *)
(*                                                                         *)
(* Quantities are doubles in the source.  They are modelled in fixed point *)
(* with exact arithmetic: one unit is 5e-9, so the delta/emptiness         *)
(* tolerance 1e-8 is 2 units and the invariant tolerance 1e-6 is 200       *)
(* units.  Prices are modelled as small integers (only their order and     *)
(* equality matter to the book).                                           *)
(***************************************************************************)
EXTENDS Integers, Sequences, FiniteSets, TLC

\* ---------------------------------------------------------------- bounds
\* next_order_id_ is a uint64_t counter: update_order is called while it is
\* at most MaxOrderId (clear restarts it)
MaxOrderId == 3

\* events_processed is a uint64_t counter: the replay loop is followed while
\* it is at most MaxEvents
MaxEvents == 11

\* 1e-8 in units of 5e-9
EPS == 2
\* 1e-6 in units of 5e-9
TOL == 200

\* ---------------------------------------------------------------- inputs
Prices == {1, 2, 3}
Timestamps == {7}
Sides == {"BID", "ASK"}
\* std::vector<std::pair<double, double>>::max_size(), scaled down: the
\* largest n that reserve(n) does not reject
max_size == 5

\* the n of the depth queries (a size_t): none, some, all and more than all
\* levels, and one above max_size()
Depths == {0, 1, 2, 3, 4, max_size + 1}
\* negative, zero, below the tolerance (5e-9), and three sizes above it
Quantities == {-3, 0, 1, 3, 8, 14}

\* the lines an event file is made of: three well-formed ones, then a line
\* of 6 fields, of 8 fields, with a price that is no number, an empty line,
\* a line with an empty field, with an unknown side, with an unknown event
\* type, with a quantity followed by a letter, and one ending in a separator
Lines ==
  { <<"1", "7", "7", "UPDATE", "1", "8", "BID">>,
    <<"2", "7", "7", "SNAPSHOT", "2", "3", "ASK">>,
    <<"3", "7", "7", "UPDATE", "1", "0", "BID">>,
    <<"1", "7", "7", "UPDATE", "1", "8">>,
    <<"1", "7", "7", "UPDATE", "1", "8", "BID", "x">>,
    <<"1", "7", "7", "UPDATE", "abc", "8", "BID">>,
    <<"">>,
    <<"1", "", "7", "UPDATE", "1", "8", "BID">>,
    <<"1", "7", "7", "UPDATE", "2", "3", "SELL">>,
    <<"1", "7", "7", "TRADE", "1", "8", "BID">>,
    <<"1", "7", "7", "UPDATE", "1", "8x", "BID">>,
    <<"1", "7", "7", "UPDATE", "1", "8", "BID", "">> }

\* bids_, asks_, next_order_id_: the fields of OrderBook.
\* assert_failed: an assert() of Limit::validate_invariants fired in the last
\*   call (a build without NDEBUG aborts there; the model goes on as a build
\*   with NDEBUG does).
\* stderr_warn: the last call logged "[WARN] Crossed book detected".
\* last: the last call made on the book: its arguments, the call before it,
\*   and the level at (price, side) and the id counter as the call found them.
\* hist: the prices the caller has inserted on each side (kept by SpecInserts)
\*   and the order ids handed out so far, ever and since the last clear()
\*   (kept by SpecIds), and the arguments of the update_position calls made
\*   (kept by SpecStrategy).
\* The replay session of main.cpp:
\* file_: the std::ifstream of the EventReader (is it open, is eofbit set).
\* line, event_opt, stderr_error: the line the last read_next read (<<>> if it
\*   read none), the event it returned (nullopt if none) and the "[ERROR]"
\*   message it wrote ("" if none).
\* events_processed, strategy, metrics: the locals of main; metrics counts
\*   the records main has passed to each log_ function.
\* pc: where main is: "idle" (no session), "loop", "done", or "aborted" (an
\*   assert() failed and called abort()).
\* NDEBUG: the build defines NDEBUG, so assert() is compiled out.  Only
\*   SpecFile follows builds without it.
VARIABLES bids_, asks_, next_order_id_, assert_failed, stderr_warn, last, hist,
          file_, line, event_opt, stderr_error, events_processed, strategy,
          metrics, pc, NDEBUG

mainVars ==
  <<file_, line, event_opt, stderr_error, events_processed, strategy, metrics, pc,
    NDEBUG>>

vars == <<bids_, asks_, next_order_id_, assert_failed, stderr_warn, last, hist,
          file_, line, event_opt, stderr_error, events_processed, strategy,
          metrics, pc, NDEBUG>>

\* ------------------------------------------------------------- helpers
Abs(x) == IF x < 0 THEN -x ELSE x

MaxOf(S) == CHOOSE x \in S : \A y \in S : y <= x

MinOf(S) == CHOOSE x \in S : \A y \in S : x <= y

RECURSIVE SumQty(_)
SumQty(orders) ==
  IF orders = <<>> THEN 0 ELSE Head(orders).quantity + SumQty(Tail(orders))

\* the exact value num/den of a double division (den is never 0 here)
Ratio(num, den) == [num |-> num, den |-> den]

\* std::map::erase(key)
MapErase(m, k) == [x \in DOMAIN m \ {k} |-> m[x]]

\* std::map::operator[](key) = value
MapPut(m, k, v) == [x \in DOMAIN m \cup {k} |-> IF x = k THEN v ELSE m[x]]

EmptyMap == [x \in {} |-> 0]

\* ------------------------------------------------------------ Order.h
Order(id, p, q, s, ts) ==
  [order_id |-> id, price |-> p, quantity |-> q, side |-> s, timestamp |-> ts]

Limit(p) == [price |-> p, total_volume |-> 0, order_count |-> 0, orders |-> <<>>]

\* mutant: the new order is put at the front of the queue
add_synthetic_order_front(limit, order_id, qty, side, timestamp) ==
  LET o == <<Order(order_id, limit.price, qty, side, timestamp)>> \o limit.orders
  IN [limit EXCEPT !.orders = o,
                   !.total_volume = @ + qty,
                   !.order_count = Len(o)]

add_synthetic_order(limit, order_id, qty, side, timestamp) ==
  LET o == Append(limit.orders, Order(order_id, limit.price, qty, side, timestamp))
  IN [limit EXCEPT !.orders = o,
                   !.total_volume = @ + qty,
                   !.order_count = Len(o)]

\* the while loop of reduce_volume_fifo; yields the queue and the amount removed
RECURSIVE ReduceLoop(_, _, _)
ReduceLoop(orders, qty_to_remove, removed) ==
  IF qty_to_remove > EPS /\ orders # <<>>
  THEN LET front == Head(orders) IN
       IF front.quantity <= qty_to_remove
       THEN ReduceLoop(Tail(orders), qty_to_remove - front.quantity,
                       removed + front.quantity)
       ELSE ReduceLoop(<<[front EXCEPT !.quantity = @ - qty_to_remove]>> \o Tail(orders),
                       0, removed + qty_to_remove)
  ELSE [orders |-> orders, removed |-> removed]

Reverse(seq) == [i \in 1..Len(seq) |-> seq[Len(seq) + 1 - i]]

\* mutant: volume is taken from the back of the queue (newest first)
reduce_volume_lifo(limit, qty_to_remove) ==
  LET r == ReduceLoop(Reverse(limit.orders), qty_to_remove, 0)
  IN [limit EXCEPT !.orders = Reverse(r.orders),
                   !.total_volume = @ - r.removed,
                   !.order_count = Len(r.orders)]

\* mutant: total_volume is not brought down by the amount removed
reduce_volume_fifo_stale_total(limit, qty_to_remove) ==
  LET r == ReduceLoop(limit.orders, qty_to_remove, 0)
  IN [limit EXCEPT !.orders = r.orders,
                   !.order_count = Len(r.orders)]

\* mutant: a partial reduction is taken from the newest order of the queue
RECURSIVE ReduceLoop_newest_cut(_, _, _)
ReduceLoop_newest_cut(orders, qty_to_remove, removed) ==
  IF qty_to_remove > EPS /\ orders # <<>>
  THEN LET front == Head(orders) IN
       IF front.quantity <= qty_to_remove
       THEN ReduceLoop_newest_cut(Tail(orders), qty_to_remove - front.quantity,
                                  removed + front.quantity)
       ELSE ReduceLoop_newest_cut(
              [orders EXCEPT ![Len(orders)].quantity = @ - qty_to_remove],
              0, removed + qty_to_remove)
  ELSE [orders |-> orders, removed |-> removed]

reduce_volume_fifo_newest_cut(limit, qty_to_remove) ==
  LET r == ReduceLoop_newest_cut(limit.orders, qty_to_remove, 0)
  IN [limit EXCEPT !.orders = r.orders,
                   !.total_volume = @ - r.removed,
                   !.order_count = Len(r.orders)]

reduce_volume_fifo(limit, qty_to_remove) ==
  LET r == ReduceLoop(limit.orders, qty_to_remove, 0)
  IN [limit EXCEPT !.orders = r.orders,
                   !.total_volume = @ - r.removed,
                   !.order_count = Len(r.orders)]

\* TRUE iff none of the four assertions fires
validate_invariants(limit) ==
  /\ \A i \in 1..Len(limit.orders) : limit.orders[i].quantity >= 0
  /\ Abs(SumQty(limit.orders) - limit.total_volume) < TOL
  /\ \/ (limit.orders = <<>> /\ limit.total_volume < EPS)
     \/ (limit.orders # <<>> /\ limit.total_volume >= EPS)
  /\ limit.order_count = Len(limit.orders)

\* -------------------------------------------------------- OrderBook.cpp
\* mutant: next_order_id_ is passed on without the post-increment
AddToSide_same_id(levels, next_id, price, quantity, side, timestamp) ==
  IF price \in DOMAIN levels
  THEN LET old_volume == levels[price].total_volume
           delta == quantity - old_volume
           lim == IF delta > EPS
                  THEN add_synthetic_order(levels[price], next_id, delta, side, timestamp)
                  ELSE IF delta < -EPS
                       THEN reduce_volume_fifo(levels[price], -delta)
                       ELSE levels[price]
       IN [levels |-> MapPut(levels, price, lim), next_id |-> next_id,
           ok |-> validate_invariants(lim)]
  ELSE LET limit == add_synthetic_order(Limit(price), next_id, quantity, side, timestamp)
       IN [levels |-> MapPut(levels, price, limit), next_id |-> next_id,
           ok |-> validate_invariants(limit)]

\* mutant: a quantity within 1e-8 of the level's volume rebuilds the queue as
\* one new order
AddToSide_rebuild(levels, next_id, price, quantity, side, timestamp) ==
  IF price \in DOMAIN levels
  THEN LET old_volume == levels[price].total_volume
           delta == quantity - old_volume
           lim == IF delta > EPS
                  THEN add_synthetic_order(levels[price], next_id, delta, side, timestamp)
                  ELSE IF delta < -EPS
                       THEN reduce_volume_fifo(levels[price], -delta)
                       ELSE add_synthetic_order(Limit(price), next_id, quantity,
                                                side, timestamp)
       IN [levels |-> MapPut(levels, price, lim), next_id |-> next_id + 1,
           ok |-> validate_invariants(lim)]
  ELSE LET limit == add_synthetic_order(Limit(price), next_id, quantity, side, timestamp)
       IN [levels |-> MapPut(levels, price, limit), next_id |-> next_id + 1,
           ok |-> validate_invariants(limit)]

\* mutant: the id counter also advances when a level's volume is reduced
AddToSide_id_on_decrease(levels, next_id, price, quantity, side, timestamp) ==
  IF price \in DOMAIN levels
  THEN LET old_volume == levels[price].total_volume
           delta == quantity - old_volume
           lim == IF delta > EPS
                  THEN add_synthetic_order(levels[price], next_id, delta, side, timestamp)
                  ELSE IF delta < -EPS
                       THEN reduce_volume_fifo(levels[price], -delta)
                       ELSE levels[price]
       IN [levels |-> MapPut(levels, price, lim),
           next_id |-> IF delta > EPS \/ delta < -EPS THEN next_id + 1 ELSE next_id,
           ok |-> validate_invariants(lim)]
  ELSE LET limit == add_synthetic_order(Limit(price), next_id, quantity, side, timestamp)
       IN [levels |-> MapPut(levels, price, limit),
           next_id |-> next_id + 1,
           ok |-> validate_invariants(limit)]

\* add_order on one side's map; ok is FALSE when validate_invariants asserts
AddToSide(levels, next_id, price, quantity, side, timestamp) ==
  IF price \in DOMAIN levels
  THEN LET old_volume == levels[price].total_volume
           delta == quantity - old_volume
           lim == IF delta > EPS
                  THEN add_synthetic_order(levels[price], next_id, delta, side, timestamp)
                  ELSE IF delta < -EPS
                       THEN reduce_volume_fifo(levels[price], -delta)
                       ELSE levels[price]
       IN [levels |-> MapPut(levels, price, lim),
           next_id |-> IF delta > EPS THEN next_id + 1 ELSE next_id,
           ok |-> validate_invariants(lim)]
  ELSE LET limit == add_synthetic_order(Limit(price), next_id, quantity, side, timestamp)
       IN [levels |-> MapPut(levels, price, limit),
           next_id |-> next_id + 1,
           ok |-> validate_invariants(limit)]

add_order(book, price, quantity, side, timestamp) ==
  IF side = "BID"
  THEN LET r == AddToSide(book.bids_, book.next_order_id_, price, quantity, side, timestamp)
       IN [bids_ |-> r.levels, asks_ |-> book.asks_,
           next_order_id_ |-> r.next_id, ok |-> r.ok]
  ELSE LET r == AddToSide(book.asks_, book.next_order_id_, price, quantity, side, timestamp)
       IN [bids_ |-> book.bids_, asks_ |-> r.levels,
           next_order_id_ |-> r.next_id, ok |-> r.ok]

\* mutant: the level is erased on the other side
clear_price_level_swapped(book, price, side) ==
  IF side = "BID"
  THEN [book EXCEPT !.asks_ = MapErase(@, price)]
  ELSE [book EXCEPT !.bids_ = MapErase(@, price)]

\* mutant: every level of the side is erased
clear_price_level_whole_side(book, price, side) ==
  IF side = "BID"
  THEN [book EXCEPT !.bids_ = EmptyMap]
  ELSE [book EXCEPT !.asks_ = EmptyMap]

clear_price_level(book, price, side) ==
  IF side = "BID"
  THEN [book EXCEPT !.bids_ = MapErase(@, price)]
  ELSE [book EXCEPT !.asks_ = MapErase(@, price)]

\* std::optional<double>: nullopt is the empty sequence, a value is <<x>>
nullopt == <<>>

has_value(o) == o # nullopt

\* mutant: bids_ ordered by std::less, begin() is the lowest price
get_best_bid_lowest(book) ==
  IF DOMAIN book.bids_ = {} THEN nullopt ELSE <<MinOf(DOMAIN book.bids_)>>

\* bids_ is ordered by std::greater: begin() is the highest price
get_best_bid(book) ==
  IF DOMAIN book.bids_ = {} THEN nullopt ELSE <<MaxOf(DOMAIN book.bids_)>>

\* asks_ is ordered by std::less: begin() is the lowest price
get_best_ask(book) ==
  IF DOMAIN book.asks_ = {} THEN nullopt ELSE <<MinOf(DOMAIN book.asks_)>>

get_spread(book) ==
  LET best_bid == get_best_bid(book)
      best_ask == get_best_ask(book)
  IN IF ~has_value(best_bid) \/ ~has_value(best_ask)
     THEN nullopt
     ELSE <<best_ask[1] - best_bid[1]>>

\* mutant: the mid price is the sum of the two best prices, not halved
get_mid_price_sum(book) ==
  LET best_bid == get_best_bid(book)
      best_ask == get_best_ask(book)
  IN IF ~has_value(best_bid) \/ ~has_value(best_ask)
     THEN nullopt
     ELSE <<Ratio(best_bid[1] + best_ask[1], 1)>>

get_mid_price(book) ==
  LET best_bid == get_best_bid(book)
      best_ask == get_best_ask(book)
  IN IF ~has_value(best_bid) \/ ~has_value(best_ask)
     THEN nullopt
     ELSE <<Ratio(best_bid[1] + best_ask[1], 2)>>

get_bid_volume(book, price) ==
  IF price \in DOMAIN book.bids_ THEN book.bids_[price].total_volume ELSE 0

get_ask_volume(book, price) ==
  IF price \in DOMAIN book.asks_ THEN book.asks_[price].total_volume ELSE 0

get_orders_at_price(book, price, side) ==
  IF side = "BID"
  THEN IF price \in DOMAIN book.bids_ THEN book.bids_[price].orders ELSE <<>>
  ELSE IF price \in DOMAIN book.asks_ THEN book.asks_[price].orders ELSE <<>>

\* iteration order of bids_ (std::greater): prices from the highest down
RECURSIVE Descending(_)
Descending(S) ==
  IF S = {} THEN <<>> ELSE <<MaxOf(S)>> \o Descending(S \ {MaxOf(S)})

\* iteration order of asks_ (std::less): prices from the lowest up
RECURSIVE Ascending(_)
Ascending(S) ==
  IF S = {} THEN <<>> ELSE <<MinOf(S)>> \o Ascending(S \ {MinOf(S)})

\* the range-for loop of get_bid_depth / get_ask_depth over the keys left
RECURSIVE DepthLoop(_, _, _, _, _)
DepthLoop(levels, keys, n, count, result) ==
  IF keys = <<>> \/ count >= n
  THEN result
  ELSE DepthLoop(levels, Tail(keys), n, count + 1,
                 Append(result, <<Head(keys), levels[Head(keys)].total_volume>>))

\* result.reserve(n): TRUE when it returns, FALSE when it throws
\* std::length_error (n above max_size())
reserve(n) == n <= max_size

\* thrown is the exception that left the call ("" when it returned)
get_bid_depth(book, n) ==
  IF ~reserve(n)
  THEN [thrown |-> "std::length_error", result |-> <<>>]
  ELSE [thrown |-> "",
        result |-> DepthLoop(book.bids_, Descending(DOMAIN book.bids_), n, 0, <<>>)]

get_ask_depth(book, n) ==
  IF ~reserve(n)
  THEN [thrown |-> "std::length_error", result |-> <<>>]
  ELSE [thrown |-> "",
        result |-> DepthLoop(book.asks_, Ascending(DOMAIN book.asks_), n, 0, <<>>)]

\* the range-for loop of get_total_bid_volume / get_total_ask_volume
RECURSIVE TotalLoop(_, _, _, _, _)
TotalLoop(levels, keys, depth, count, total) ==
  IF keys = <<>> \/ count >= depth
  THEN total
  ELSE TotalLoop(levels, Tail(keys), depth, count + 1,
                 total + levels[Head(keys)].total_volume)

get_total_bid_volume(book, depth) ==
  TotalLoop(book.bids_, Descending(DOMAIN book.bids_), depth, 0, 0)

get_total_ask_volume(book, depth) ==
  TotalLoop(book.asks_, Ascending(DOMAIN book.asks_), depth, 0, 0)

\* mutant: the quotient is taken without the test of total_volume
calculate_imbalance_unguarded(book, depth) ==
  LET bid_volume == get_total_bid_volume(book, depth)
      ask_volume == get_total_ask_volume(book, depth)
  IN Ratio(bid_volume - ask_volume, bid_volume + ask_volume)

\* the quotient is kept exact, as the ratio num/den
calculate_imbalance(book, depth) ==
  LET bid_volume == get_total_bid_volume(book, depth)
      ask_volume == get_total_ask_volume(book, depth)
      total_volume == bid_volume + ask_volume
  IN IF total_volume < EPS
     THEN Ratio(0, 1)
     ELSE Ratio(bid_volume - ask_volume, total_volume)

\* best bid above best ask
Crossed(book) ==
  /\ has_value(get_best_bid(book))
  /\ has_value(get_best_ask(book))
  /\ get_best_bid(book)[1] > get_best_ask(book)[1]

\* mutant: only the first crossed bid is erased (if instead of while)
TrimBids_once(bids, best_ask) ==
  IF DOMAIN bids # {} /\ MaxOf(DOMAIN bids) > best_ask
  THEN MapErase(bids, MaxOf(DOMAIN bids))
  ELSE bids

\* while (bid_it != end && bid_it->first > best_ask) bid_it = erase(bid_it)
RECURSIVE TrimBids(_, _)
TrimBids(bids, best_ask) ==
  IF DOMAIN bids # {} /\ MaxOf(DOMAIN bids) > best_ask
  THEN TrimBids(MapErase(bids, MaxOf(DOMAIN bids)), best_ask)
  ELSE bids

\* while (ask_it != end && ask_it->first < new_best_bid) ask_it = erase(ask_it)
RECURSIVE TrimAsks(_, _)
TrimAsks(asks, new_best_bid) ==
  IF DOMAIN asks # {} /\ MinOf(DOMAIN asks) < new_best_bid
  THEN TrimAsks(MapErase(asks, MinOf(DOMAIN asks)), new_best_bid)
  ELSE asks

\* mutant: the crossed book is reported and left as it is
validate_book_integrity_flag_only(book) ==
  [bids_ |-> book.bids_, asks_ |-> book.asks_,
   next_order_id_ |-> book.next_order_id_, warn |-> Crossed(book)]

\* mutant: the book is repaired only when the best bid is more than one
\* price step above the best ask
validate_book_integrity_wide_only(book) ==
  LET best_bid == get_best_bid(book)
      best_ask == get_best_ask(book)
  IN IF has_value(best_bid) /\ has_value(best_ask) /\ best_bid[1] > best_ask[1] + 1
     THEN [bids_ |-> TrimBids(book.bids_, best_ask[1]), asks_ |-> book.asks_,
           next_order_id_ |-> book.next_order_id_, warn |-> TRUE]
     ELSE [bids_ |-> book.bids_, asks_ |-> book.asks_,
           next_order_id_ |-> book.next_order_id_, warn |-> FALSE]

\* mutant: the crossed book is repaired on the ask side, the asks below the
\* best bid being erased
validate_book_integrity_asks_erased(book) ==
  LET best_bid == get_best_bid(book)
      best_ask == get_best_ask(book)
  IN IF has_value(best_bid) /\ has_value(best_ask) /\ best_bid[1] > best_ask[1]
     THEN [bids_ |-> book.bids_, asks_ |-> TrimAsks(book.asks_, best_bid[1]),
           next_order_id_ |-> book.next_order_id_, warn |-> TRUE]
     ELSE [bids_ |-> book.bids_, asks_ |-> book.asks_,
           next_order_id_ |-> book.next_order_id_, warn |-> FALSE]

\* yields the (possibly repaired) book and whether the warning was logged
validate_book_integrity(book) ==
  LET best_bid == get_best_bid(book)
      best_ask == get_best_ask(book)
  IN IF has_value(best_bid) /\ has_value(best_ask) /\ best_bid[1] > best_ask[1]
     THEN LET nb == TrimBids(book.bids_, best_ask[1])
              new_best_bid == get_best_bid([book EXCEPT !.bids_ = nb])
              na == IF has_value(new_best_bid)
                    THEN TrimAsks(book.asks_, new_best_bid[1])
                    ELSE book.asks_
          IN [bids_ |-> nb, asks_ |-> na,
              next_order_id_ |-> book.next_order_id_, warn |-> TRUE]
     ELSE [bids_ |-> book.bids_, asks_ |-> book.asks_,
           next_order_id_ |-> book.next_order_id_, warn |-> FALSE]

\* --------------------------------------------------------- EventReader.cpp
\* A line is the sequence of its fields, i.e. the text between the '|'
\* separators: "a|b|" is <<"a", "b", "">> and the empty line is <<"">>.
\* Numbers read from a line are on the scales of the model: a price field "2"
\* is the price 2, a quantity field "3" is 3 units of 5e-9.

\* std::getline(ss, token, '|') until it fails: every field is a token, except
\* that no token is extracted after the last separator when nothing follows it
Tokens(l) ==
  IF l[Len(l)] = "" THEN SubSeq(l, 1, Len(l) - 1) ELSE l

\* std::stod: the value of the longest numeric prefix; std::invalid_argument
\* (ok = FALSE) when there is none
stod(token) ==
  CASE token = "0" -> [ok |-> TRUE, value |-> 0]
    [] token = "1" -> [ok |-> TRUE, value |-> 1]
    [] token = "2" -> [ok |-> TRUE, value |-> 2]
    [] token = "3" -> [ok |-> TRUE, value |-> 3]
    [] token = "7" -> [ok |-> TRUE, value |-> 7]
    [] token = "8" -> [ok |-> TRUE, value |-> 8]
    [] token = "-3" -> [ok |-> TRUE, value |-> -3]
    [] token = "8x" -> [ok |-> TRUE, value |-> 8]
    [] OTHER -> [ok |-> FALSE, value |-> 0]

\* std::stoull: as stod for the tokens here; a leading '-' is accepted and the
\* value negated modulo 2^64 (a uint64_t is kept as its residue modulo 2^64
\* nearest to 0, so "-3" is -3)
stoull(token) == stod(token)

\* Event::Event
Event ==
  [exchange_seq |-> 0, exchange_ts |-> 0, local_ts |-> 0, event_type |-> "",
   price |-> 0, quantity |-> 0, side |-> "BID"]

\* the body of the switch in parse_line: the event with the field set, and
\* ok = FALSE when the conversion threw
SetField(event, field_idx, token) ==
  CASE field_idx = 0 ->
         [ok |-> stoull(token).ok,
          event |-> [event EXCEPT !.exchange_seq = stoull(token).value]]
    [] field_idx = 1 ->
         [ok |-> stoull(token).ok,
          event |-> [event EXCEPT !.exchange_ts = stoull(token).value]]
    [] field_idx = 2 ->
         [ok |-> stoull(token).ok,
          event |-> [event EXCEPT !.local_ts = stoull(token).value]]
    [] field_idx = 3 ->
         [ok |-> TRUE, event |-> [event EXCEPT !.event_type = token]]
    [] field_idx = 4 ->
         [ok |-> stod(token).ok,
          event |-> [event EXCEPT !.price = stod(token).value]]
    [] field_idx = 5 ->
         [ok |-> stod(token).ok,
          event |-> [event EXCEPT !.quantity = stod(token).value]]
    [] field_idx = 6 ->
         [ok |-> TRUE,
          event |-> [event EXCEPT !.side = IF token = "BID" THEN "BID" ELSE "ASK"]]
    [] OTHER -> [ok |-> TRUE, event |-> event]

\* the while loop of parse_line and the test after it; event is nullopt when
\* the line is rejected, and diag is the message written to stderr
RECURSIVE ParseLoop(_, _, _)
ParseLoop(tokens, field_idx, event) ==
  IF tokens = <<>>
  THEN IF field_idx # 7
       THEN [event |-> nullopt, diag |-> "Invalid event format"]
       ELSE [event |-> <<event>>, diag |-> ""]
  ELSE LET f == SetField(event, field_idx, Head(tokens))
       IN IF ~f.ok
          THEN [event |-> nullopt, diag |-> "Failed to parse field"]
          ELSE ParseLoop(Tail(tokens), field_idx + 1, f.event)

parse_line(l) == ParseLoop(Tokens(l), 0, Event)

\* ------------------------------------------------------------ Strategy.cpp
\* The doubles of a strategy are exact fractions in lowest terms (den > 0), or
\* NaN.  position_ and fill quantities are in units of 5e-9, prices in price
\* steps, pnl_ in units of 5e-9 price steps.
RECURSIVE GCD(_, _)
GCD(a, b) == IF b = 0 THEN a ELSE GCD(b, a % b)

Num(n, d) ==
  LET g == GCD(Abs(n), Abs(d))
      sgn == IF d < 0 THEN -1 ELSE 1
  IN [nan |-> FALSE, num |-> sgn * (n \div g), den |-> sgn * (d \div g)]

NaN == [nan |-> TRUE, num |-> 0, den |-> 1]

\* IEEE arithmetic on them: an operand that is NaN gives NaN (0 * NaN too).
\* Common factors are taken out before multiplying, to keep the integers small
Plus(x, y) ==
  IF x.nan \/ y.nan
  THEN NaN
  ELSE Num(x.num * (y.den \div GCD(x.den, y.den))
             + y.num * (x.den \div GCD(x.den, y.den)),
           (x.den \div GCD(x.den, y.den)) * y.den)

Minus(x, y) ==
  IF x.nan \/ y.nan THEN NaN ELSE Plus(x, [y EXCEPT !.num = -y.num])

Times(x, y) ==
  IF x.nan \/ y.nan
  THEN NaN
  ELSE Num((x.num \div GCD(Abs(x.num), y.den)) * (y.num \div GCD(Abs(y.num), x.den)),
           (x.den \div GCD(Abs(y.num), x.den)) * (y.den \div GCD(Abs(x.num), y.den)))

\* y is not 0 where this is used
Over(x, y) ==
  IF x.nan \/ y.nan THEN NaN ELSE Times(x, Num(y.den, y.num))

\* std::abs
AbsNum(x) == [x EXCEPT !.num = Abs(x.num)]

\* 1e-8 in units of 5e-9
PositionEps == Num(2, 1)

\* what an uninitialized double may hold: a finite value, or NaN / infinity
\* (which behave alike in position_ * avg_entry_price_)
Indeterminate == {Num(9, 1), NaN}

\* Strategy::Strategy and ImbalanceStrategy::ImbalanceStrategy(0.3, 5), as
\* main constructs it; avg_entry_price_ has no initializer
ImbalanceStrategy(garbage) ==
  [position_ |-> Num(0, 1), pnl_ |-> Num(0, 1), avg_entry_price_ |-> garbage,
   threshold_ |-> Num(3, 10), depth_ |-> 5, last_imbalance_ |-> Num(0, 1)]

\* x > y for two numbers; FALSE when either is NaN
Greater(x, y) ==
  /\ ~x.nan /\ ~y.nan
  /\ x.num * (y.den \div GCD(x.den, y.den)) > y.num * (x.den \div GCD(x.den, y.den))

\* mutant: evaluate never gives the sell signal
ImbalanceStrategy_evaluate_no_sell(strat, book) ==
  LET r == calculate_imbalance(book, strat.depth_)
  IN IF Greater(Num(r.num, r.den), strat.threshold_) THEN 1 ELSE 0

\* ImbalanceStrategy::evaluate: the signal; last_imbalance_ is set to the
\* imbalance by evaluate_effect
ImbalanceStrategy_evaluate(strat, book) ==
  LET r == calculate_imbalance(book, strat.depth_)
      imbalance == Num(r.num, r.den)
  IN IF Greater(imbalance, strat.threshold_)
     THEN 1
     ELSE IF Greater(Minus(Num(0, 1), strat.threshold_), imbalance)
          THEN -1
          ELSE 0

evaluate_effect(strat, book) ==
  LET r == calculate_imbalance(book, strat.depth_)
  IN [strat EXCEPT !.last_imbalance_ = Num(r.num, r.den)]

\* Strategy::update_position
update_position(strat, quantity, price) ==
  LET pnl == IF strat.position_ # Num(0, 1)
             THEN Plus(strat.pnl_,
                       Times(Minus(Num(0, 1), quantity),
                             Minus(price, strat.avg_entry_price_)))
             ELSE strat.pnl_
      new_position == Plus(strat.position_, quantity)
      avg == IF Greater(AbsNum(new_position), PositionEps)
             THEN Over(Plus(Times(strat.position_, strat.avg_entry_price_),
                            Times(quantity, price)),
                       new_position)
             ELSE Num(0, 1)
  IN [strat EXCEPT !.pnl_ = pnl, !.avg_entry_price_ = avg,
                   !.position_ = new_position]

\* 0.01, the size of a trade of main, in units of 5e-9
Lot == 2000000

\* a quantity in units of 5e-9 as the double it is (1.0 is 200000000 units)
AsDouble(x) == Times(x, Num(1, 200000000))

\* Strategy::Strategy and MarketMakingStrategy::MarketMakingStrategy with
\* inventory_limit = 10.0, holding the given position
MarketMakingStrategy(risk_aversion, position) ==
  [position_ |-> position, pnl_ |-> Num(0, 1), avg_entry_price_ |-> Num(0, 1),
   risk_aversion_ |-> risk_aversion, inventory_limit_ |-> Num(2000000000, 1),
   reservation_price_ |-> Num(0, 1)]

\* the risk_aversion of the constructor: its default 0.1, and 0
RiskAversions == {Num(1, 10), Num(0, 1)}

\* positions of -8.0, -7.0, -0.01, 0, 0.01, 7.0 and 8.0
InventoryPositions ==
  {Num(-1600000000, 1), Num(-1400000000, 1), Num(-Lot, 1), Num(0, 1),
   Num(Lot, 1), Num(1400000000, 1), Num(1600000000, 1)}

\* MarketMakingStrategy::calculate_reservation_price
calculate_reservation_price(strat, book) ==
  IF ~has_value(get_mid_price(book))
  THEN Num(0, 1)
  ELSE Minus(Num(get_mid_price(book)[1].num, get_mid_price(book)[1].den),
             Times(AsDouble(strat.position_), strat.risk_aversion_))

\* mutant: the two reservation-price tests give each other's signal
ReservationSignal_reversed(mid_price, reservation_price) ==
  IF Greater(Minus(reservation_price, Num(1, 10000)), mid_price)
  THEN -1
  ELSE IF Greater(mid_price, Plus(reservation_price, Num(1, 10000)))
       THEN 1
       ELSE 0

\* the reservation-price comparison at the end of evaluate (0.0001 around it)
ReservationSignal(mid_price, reservation_price) ==
  IF Greater(Minus(reservation_price, Num(1, 10000)), mid_price)
  THEN 1
  ELSE IF Greater(mid_price, Plus(reservation_price, Num(1, 10000)))
       THEN -1
       ELSE 0

\* mutant: evaluate without the inventory test
MarketMakingStrategy_evaluate_no_inventory_test(strat, book) ==
  IF ~has_value(get_mid_price(book))
  THEN 0
  ELSE ReservationSignal(Num(get_mid_price(book)[1].num, get_mid_price(book)[1].den),
                         calculate_reservation_price(strat, book))

\* MarketMakingStrategy::evaluate: the signal; reservation_price_ is set to
\* calculate_reservation_price(book)
MarketMakingStrategy_evaluate(strat, book) ==
  IF ~has_value(get_mid_price(book))
  THEN 0
  ELSE IF Greater(Over(strat.position_, strat.inventory_limit_), Num(7, 10))
       THEN -1
       ELSE IF Greater(Num(-7, 10), Over(strat.position_, strat.inventory_limit_))
            THEN 1
            ELSE ReservationSignal(Num(get_mid_price(book)[1].num,
                                       get_mid_price(book)[1].den),
                                   calculate_reservation_price(strat, book))

\* ------------------------------------------------------------- Metrics.cpp
\* std::sort on a vector of int64_t: Insert puts x before the first element
\* that is not below it
RECURSIVE InsertSorted(_, _)
InsertSorted(sorted, x) ==
  IF sorted = <<>>
  THEN <<x>>
  ELSE IF x <= Head(sorted)
       THEN <<x>> \o sorted
       ELSE <<Head(sorted)>> \o InsertSorted(Tail(sorted), x)

RECURSIVE sort(_)
sort(data) ==
  IF data = <<>> THEN <<>> ELSE InsertSorted(sort(Tail(data)), Head(data))

\* the percentiles generate_summary asks for: 0.50, 0.95, 0.99, each as
\* hundredths
P50 == 50
P95 == 95
P99 == 99

\* mutant: the index is rounded up
calculate_percentile_ceil(data, percentile) ==
  IF data = <<>>
  THEN 0
  ELSE data[((percentile * (Len(data) - 1) + 99) \div 100) + 1]

\* MetricsLogger::calculate_percentile; percentile in hundredths.  The cast
\* to size_t drops the fraction of percentile * (size - 1); data[index] of
\* the vector is element index + 1 of the sequence
calculate_percentile(data, percentile) ==
  IF data = <<>>
  THEN 0
  ELSE data[((percentile * (Len(data) - 1)) \div 100) + 1]

\* the statistics generate_summary writes for one latency vector; nullopt
\* when the vector is empty (the block is skipped)
LatencyStatistics(latencies) ==
  IF latencies = <<>>
  THEN nullopt
  ELSE <<[min |-> sort(latencies)[1],
          p50 |-> calculate_percentile(sort(latencies), P50),
          p95 |-> calculate_percentile(sort(latencies), P95),
          p99 |-> calculate_percentile(sort(latencies), P99),
          max |-> sort(latencies)[Len(latencies)]]>>

\* ---------------------------------------------------------------- state
Book == [bids_ |-> bids_, asks_ |-> asks_, next_order_id_ |-> next_order_id_]

\* the level at (price, side) as an optional
LevelAt(book, price, side) ==
  IF side = "BID"
  THEN IF price \in DOMAIN book.bids_ THEN <<book.bids_[price]>> ELSE nullopt
  ELSE IF price \in DOMAIN book.asks_ THEN <<book.asks_[price]>> ELSE nullopt

Call(op, price, quantity, side, timestamp) ==
  [op |-> op, price |-> price, quantity |-> quantity, side |-> side,
   timestamp |-> timestamp, after |-> last.op,
   level |-> LevelAt(Book, price, side), id |-> next_order_id_]

\* OrderBook::OrderBook
InitBook ==
  /\ bids_ = EmptyMap
  /\ asks_ = EmptyMap
  /\ next_order_id_ = 1
  /\ assert_failed = FALSE
  /\ stderr_warn = FALSE
  /\ last = [op |-> "new", price |-> 0, quantity |-> 0, side |-> "BID",
             timestamp |-> 0, after |-> "none", level |-> nullopt, id |-> 1]
  /\ hist = [ins_bids |-> {}, ins_asks |-> {}, live_bids |-> {}, live_asks |-> {},
             ids |-> {}, epoch |-> {}, fills |-> <<>>]

\* no replay session: the book is used on its own
NoSession ==
  /\ file_ = [is_open |-> FALSE, eof |-> FALSE]
  /\ line = <<>>
  /\ event_opt = nullopt
  /\ stderr_error = ""
  /\ events_processed = 0
  /\ strategy = ImbalanceStrategy(Num(0, 1))
  /\ metrics = [trades |-> 0, inventory |-> 0, pnl |-> 0, orderbook |-> 0,
                latency |-> 0]
  /\ pc = "idle"
  /\ NDEBUG = TRUE

Init == InitBook /\ NoSession

\* the body of update_order as a function of the book: the book it leaves,
\* whether the crossed-book warning was logged, whether every assert passed
UpdateResult(book, price, quantity, side, timestamp) ==
  IF quantity = 0 \/ Abs(quantity) < EPS
  THEN LET c == clear_price_level(book, price, side)
       IN [bids_ |-> c.bids_, asks_ |-> c.asks_,
           next_order_id_ |-> c.next_order_id_, warn |-> FALSE, ok |-> TRUE]
  ELSE LET a == add_order(book, price, quantity, side, timestamp)
           v == validate_book_integrity(a)
       IN [bids_ |-> v.bids_, asks_ |-> v.asks_,
           next_order_id_ |-> v.next_order_id_, warn |-> v.warn, ok |-> a.ok]

update_order(price, quantity, side, timestamp) ==
  LET r == UpdateResult(Book, price, quantity, side, timestamp)
  IN /\ last' = Call("update_order", price, quantity, side, timestamp)
     /\ bids_' = r.bids_
     /\ asks_' = r.asks_
     /\ next_order_id_' = r.next_order_id_
     /\ stderr_warn' = r.warn
     /\ assert_failed' = ~r.ok

\* mutant: clear() leaves the id counter where it is
reset_order_ids_skipped == next_order_id_

reset_order_ids == 1

\* mutant: clear() empties the bid side only
clear_keeps_asks ==
  /\ last' = Call("clear", 0, 0, "BID", 0)
  /\ bids_' = EmptyMap
  /\ asks_' = asks_
  /\ next_order_id_' = reset_order_ids
  /\ stderr_warn' = FALSE
  /\ assert_failed' = FALSE

clear ==
  /\ last' = Call("clear", 0, 0, "BID", 0)
  /\ bids_' = EmptyMap
  /\ asks_' = EmptyMap
  /\ next_order_id_' = reset_order_ids
  /\ stderr_warn' = FALSE
  /\ assert_failed' = FALSE

\* ------------------------------------------------- Spec: any call sequence
Update ==
  \E p \in Prices, q \in Quantities, s \in Sides, t \in Timestamps :
    /\ next_order_id_ <= MaxOrderId
    /\ update_order(p, q, s, t)
    /\ UNCHANGED <<hist, mainVars>>

Clear == clear /\ UNCHANGED <<hist, mainVars>>

Next == Update \/ Clear

Spec == Init /\ [][Next]_vars

\* ------------------------- SpecFifo: any call sequence on one price level
FifoUpdate ==
  \E q \in Quantities, t \in Timestamps :
    /\ next_order_id_ <= MaxOrderId + 2
    /\ update_order(1, q, "BID", t)
    /\ UNCHANGED <<hist, mainVars>>

NextFifo == FifoUpdate \/ Clear

SpecFifo == Init /\ [][NextFifo]_vars

\* ---- SpecInserts: update_order calls with quantities of at least 1e-8 only
\* the prices left on each side by crossed-book repair, as the book's contract
\* states it: bids strictly above the best ask go, asks stay
HistAfter(h, price, side) ==
  LET bids == IF side = "BID" THEN h.live_bids \cup {price} ELSE h.live_bids
      asks == IF side = "ASK" THEN h.live_asks \cup {price} ELSE h.live_asks
  IN [h EXCEPT
        !.ins_bids = IF side = "BID" THEN h.ins_bids \cup {price} ELSE h.ins_bids,
        !.ins_asks = IF side = "ASK" THEN h.ins_asks \cup {price} ELSE h.ins_asks,
        !.live_bids = {b \in bids : \A a \in asks : b <= a},
        !.live_asks = asks]

Insert ==
  \E p \in Prices, q \in {x \in Quantities : x >= EPS},
     s \in Sides, t \in Timestamps :
    /\ next_order_id_ <= MaxOrderId
    /\ update_order(p, q, s, t)
    /\ hist' = HistAfter(hist, p, s)
    /\ UNCHANGED mainVars

NextInserts == Insert

SpecInserts == Init /\ [][NextInserts]_vars

\* -- SpecIds: any call sequence with quantities >= 0, the ids handed out
\* kept in hist
\* the ids of the orders update_order creates: those add_order puts at the
\* back of the queue at (price, side)
CreatedIds(book, price, quantity, side, timestamp) ==
  IF quantity = 0 \/ Abs(quantity) < EPS
  THEN {}
  ELSE LET a == add_order(book, price, quantity, side, timestamp)
           before == get_orders_at_price(book, price, side)
           after == get_orders_at_price(a, price, side)
       IN {after[i].order_id : i \in (Len(before) + 1)..Len(after)}

IdUpdate ==
  \E p \in Prices, q \in {x \in Quantities : x >= 0},
     s \in Sides, t \in Timestamps :
    /\ next_order_id_ <= MaxOrderId
    /\ update_order(p, q, s, t)
    /\ hist' = [hist EXCEPT !.ids = @ \cup CreatedIds(Book, p, q, s, t),
                            !.epoch = @ \cup CreatedIds(Book, p, q, s, t)]
    /\ UNCHANGED mainVars

IdClear == clear /\ hist' = [hist EXCEPT !.epoch = {}] /\ UNCHANGED mainVars

NextIds == IdUpdate \/ IdClear

SpecIds == Init /\ [][NextIds]_vars

\* ------------------------------------------ SpecReplay: main.cpp on a file
\* main up to the loop: the book, the reader (the file may fail to open), the
\* strategy and the counters
InitReplay ==
  /\ InitBook
  /\ \E opened \in BOOLEAN : file_ = [is_open |-> opened, eof |-> FALSE]
  /\ line = <<>>
  /\ event_opt = nullopt
  /\ stderr_error = ""
  /\ events_processed = 0
  /\ \E garbage \in Indeterminate : strategy = ImbalanceStrategy(garbage)
  /\ metrics = [trades |-> 0, inventory |-> 0, pnl |-> 0, orderbook |-> 0,
                latency |-> 0]
  /\ pc = "loop"
  /\ NDEBUG = TRUE

\* mutant: has_more() looks at eofbit only
has_more_eof_only == ~file_.eof

has_more == file_.is_open /\ ~file_.eof

\* strategy->evaluate(order_book, ...) when events_processed % 10 == 0; 0 is
\* also the signal of a turn without evaluation
Signal(strat, book, n) ==
  IF n % 10 = 0 THEN ImbalanceStrategy_evaluate(strat, book) ELSE 0

\* mutant: the trade is made whatever the signal is
Traded_without_signal(signal, book) == has_value(get_mid_price(book))

\* if (signal != 0) { ... if (mid_price) {
Traded(signal, book) == signal # 0 /\ has_value(get_mid_price(book))

\* the strategy after the turn: evaluated, and its position updated by
\* signal * 0.01 at the mid price if it traded
StrategyAfter(strat, book, n, signal) ==
  LET seen == IF n % 10 = 0 THEN evaluate_effect(strat, book) ELSE strat
      mid_price == get_mid_price(book)
  IN IF Traded(signal, book)
     THEN update_position(seen, Num(signal * Lot, 1),
                          Num(mid_price[1].num, mid_price[1].den))
     ELSE seen

\* the records passed to the metrics logger in the turn
MetricsAfter(m, book, n, signal) ==
  LET traded == IF Traded(signal, book) THEN 1 ELSE 0
      logged == IF /\ n % 100 = 0
                   /\ has_value(get_best_bid(book))
                   /\ has_value(get_best_ask(book))
                   /\ has_value(get_mid_price(book))
                   /\ has_value(get_spread(book))
                THEN 1 ELSE 0
      timed == IF n % 1000 = 0 THEN 1 ELSE 0
  IN [trades |-> m.trades + traded,
      inventory |-> m.inventory + traded,
      pnl |-> m.pnl + traded,
      orderbook |-> m.orderbook + logged,
      latency |-> m.latency + timed]

\* mutant: a SNAPSHOT event clears the book and resets the ids before it is
\* applied
ProcessEvent_snapshot_clears(event) ==
  /\ IF event.event_type = "SNAPSHOT"
     THEN /\ last' = Call("update_order", event.price, event.quantity,
                          event.side, event.exchange_ts)
          /\ bids_' = UpdateResult([bids_ |-> EmptyMap, asks_ |-> EmptyMap,
                                    next_order_id_ |-> 1], event.price,
                                   event.quantity, event.side,
                                   event.exchange_ts).bids_
          /\ asks_' = UpdateResult([bids_ |-> EmptyMap, asks_ |-> EmptyMap,
                                    next_order_id_ |-> 1], event.price,
                                   event.quantity, event.side,
                                   event.exchange_ts).asks_
          /\ next_order_id_' =
               UpdateResult([bids_ |-> EmptyMap, asks_ |-> EmptyMap,
                             next_order_id_ |-> 1], event.price, event.quantity,
                            event.side, event.exchange_ts).next_order_id_
          /\ stderr_warn' = FALSE
          /\ assert_failed' = FALSE
     ELSE update_order(event.price, event.quantity, event.side, event.exchange_ts)
  /\ strategy' = StrategyAfter(strategy, Book', events_processed,
                               Signal(strategy, Book', events_processed))
  /\ metrics' = MetricsAfter(metrics, Book', events_processed,
                             Signal(strategy, Book', events_processed))
  /\ events_processed' = events_processed + 1

\* the loop body from the timer on, for the event read
ProcessEvent(event) ==
  /\ update_order(event.price, event.quantity, event.side, event.exchange_ts)
  /\ strategy' = StrategyAfter(strategy, Book', events_processed,
                               Signal(strategy, Book', events_processed))
  /\ metrics' = MetricsAfter(metrics, Book', events_processed,
                             Signal(strategy, Book', events_processed))
  /\ events_processed' = events_processed + 1

\* mutant: a line that gives no event is counted as processed
LoopIteration_counts_skips ==
  /\ pc = "loop"
  /\ has_more
  /\ events_processed <= MaxEvents
  /\ \/ /\ file_' = [file_ EXCEPT !.eof = TRUE]
        /\ event_opt' = nullopt
        /\ line' = <<>>
        /\ stderr_error' = ""
        /\ UNCHANGED <<bids_, asks_, next_order_id_, assert_failed, stderr_warn,
                       last, events_processed, strategy, metrics>>
     \/ \E l \in Lines, at_end \in BOOLEAN :
          /\ file_' = [file_ EXCEPT !.eof = at_end]
          /\ line' = l
          /\ event_opt' = parse_line(l).event
          /\ stderr_error' = parse_line(l).diag
          /\ IF ~has_value(parse_line(l).event)
             THEN /\ events_processed' = events_processed + 1
                  /\ UNCHANGED <<bids_, asks_, next_order_id_, assert_failed,
                                 stderr_warn, last, strategy, metrics>>
             ELSE ProcessEvent(parse_line(l).event[1])
  /\ UNCHANGED <<hist, pc, NDEBUG>>

\* one turn of while (reader.has_more()): read_next, then continue if it gave
\* no event, else the body.  std::getline either fails at the end of the file
\* (eofbit is set, no line) or gives a line, setting eofbit if the line was
\* the last and had no newline after it
LoopIteration ==
  /\ pc = "loop"
  /\ has_more
  /\ events_processed <= MaxEvents
  /\ \/ /\ file_' = [file_ EXCEPT !.eof = TRUE]
        /\ event_opt' = nullopt
        /\ line' = <<>>
        /\ stderr_error' = ""
        /\ UNCHANGED <<bids_, asks_, next_order_id_, assert_failed, stderr_warn,
                       last, events_processed, strategy, metrics>>
     \/ \E l \in Lines, at_end \in BOOLEAN :
          /\ file_' = [file_ EXCEPT !.eof = at_end]
          /\ line' = l
          /\ event_opt' = parse_line(l).event
          /\ stderr_error' = parse_line(l).diag
          /\ IF ~has_value(parse_line(l).event)
             THEN UNCHANGED <<bids_, asks_, next_order_id_, assert_failed,
                              stderr_warn, last, events_processed, strategy,
                              metrics>>
             ELSE ProcessEvent(parse_line(l).event[1])
  /\ UNCHANGED <<hist, pc, NDEBUG>>

\* the loop is left: final statistics and metrics.flush()
Finish ==
  /\ pc = "loop"
  /\ ~has_more
  /\ pc' = "done"
  /\ UNCHANGED <<bids_, asks_, next_order_id_, assert_failed, stderr_warn, last,
                 hist, file_, line, event_opt, stderr_error, events_processed,
                 strategy, metrics, NDEBUG>>

NextReplay == LoopIteration \/ Finish

SpecReplay == InitReplay /\ [][NextReplay]_vars

\* ------------------------------- SpecFile: main.cpp on a file of known length
\* the file has at most MaxLines lines
MaxLines == 3

\* the lines of such a file: two well-formed ones, one whose quantity is
\* negative, an empty line and a line of 6 fields
FileLines ==
  { <<"1", "7", "7", "UPDATE", "1", "8", "BID">>,
    <<"2", "7", "7", "SNAPSHOT", "2", "3", "ASK">>,
    <<"3", "7", "7", "UPDATE", "1", "-3", "BID">>,
    <<"">>,
    <<"1", "7", "7", "UPDATE", "1", "8">> }

\* main up to the loop, in a build with or without NDEBUG.  The stream keeps
\* the number of lines it has not read yet and whether the last line of the
\* file ends in a newline
InitFile ==
  /\ InitBook
  /\ \E opened \in BOOLEAN, n \in 0..MaxLines, nl \in BOOLEAN :
       file_ = [is_open |-> opened, eof |-> FALSE, unread |-> n, newline |-> nl]
  /\ line = <<>>
  /\ event_opt = nullopt
  /\ stderr_error = ""
  /\ events_processed = 0
  /\ \E garbage \in Indeterminate : strategy = ImbalanceStrategy(garbage)
  /\ metrics = [trades |-> 0, inventory |-> 0, pnl |-> 0, orderbook |-> 0,
                latency |-> 0]
  /\ pc = "loop"
  /\ NDEBUG \in BOOLEAN

\* EventReader::read_next on that file: the outcomes it can have over the
\* lines the file may hold, each the stream it leaves, the line read (<<>> if
\* none), the event returned and the message written.  std::getline fails
\* and sets eofbit when no line is left; it sets eofbit with the last line
\* when no newline follows it (that line is not empty then)
read_next(file, lines) ==
  IF ~file.is_open \/ file.eof
  THEN {[file_ |-> file, line |-> <<>>, event_opt |-> nullopt, stderr_error |-> ""]}
  ELSE IF file.unread = 0
       THEN {[file_ |-> [file EXCEPT !.eof = TRUE], line |-> <<>>,
              event_opt |-> nullopt, stderr_error |-> ""]}
       ELSE {[file_ |-> [file EXCEPT !.unread = @ - 1,
                                     !.eof = (file.unread = 1 /\ ~file.newline)],
              line |-> l, event_opt |-> parse_line(l).event,
              stderr_error |-> parse_line(l).diag] :
               l \in {x \in lines :
                        ~(x = <<"">> /\ file.unread = 1 /\ ~file.newline)}}

\* order_book.update_order(...) fails an assert of validate_invariants
AssertFails(event) ==
  ~UpdateResult(Book, event.price, event.quantity, event.side,
                event.exchange_ts).ok

\* one turn of while (reader.has_more()) on that file.  Without NDEBUG a
\* failing assert aborts inside update_order
FileIteration ==
  /\ pc = "loop"
  /\ has_more
  /\ \E r \in read_next(file_, FileLines) :
       /\ file_' = r.file_
       /\ line' = r.line
       /\ event_opt' = r.event_opt
       /\ stderr_error' = r.stderr_error
       /\ IF ~has_value(r.event_opt)
          THEN UNCHANGED <<bids_, asks_, next_order_id_, assert_failed,
                           stderr_warn, last, events_processed, strategy,
                           metrics, pc>>
          ELSE IF ~NDEBUG /\ AssertFails(r.event_opt[1])
               THEN /\ update_order(r.event_opt[1].price, r.event_opt[1].quantity,
                                    r.event_opt[1].side, r.event_opt[1].exchange_ts)
                    /\ pc' = "aborted"
                    /\ UNCHANGED <<events_processed, strategy, metrics>>
               ELSE /\ ProcessEvent(r.event_opt[1])
                    /\ pc' = pc
  /\ UNCHANGED <<hist, NDEBUG>>

NextFile == FileIteration \/ Finish

\* main runs on: a step that can be taken is taken
SpecFile == InitFile /\ [][NextFile]_vars /\ WF_vars(NextFile)

\* ------------- SpecStrategy: any sequence of fills on a strategy as built
\* update_position is called at most MaxFills times
MaxFills == 2

\* fill quantities: 1.5e-8 and 3e-8 bought and sold, and 5e-9 sold (after
\* buying 1.5e-8 that leaves 1e-8, which is not above the tolerance)
FillQuantities == {Num(3, 1), Num(-3, 1), Num(6, 1), Num(-6, 1), Num(-1, 1)}

\* fill prices in price steps
FillPrices == {Num(1, 1), Num(3, 2), Num(2, 1)}

\* the strategy as main constructs it; the book and the reader are not used
InitStrategy ==
  /\ InitBook
  /\ file_ = [is_open |-> FALSE, eof |-> FALSE]
  /\ line = <<>>
  /\ event_opt = nullopt
  /\ stderr_error = ""
  /\ events_processed = 0
  /\ \E garbage \in Indeterminate : strategy = ImbalanceStrategy(garbage)
  /\ metrics = [trades |-> 0, inventory |-> 0, pnl |-> 0, orderbook |-> 0,
                latency |-> 0]
  /\ pc = "idle"
  /\ NDEBUG = TRUE

\* strategy->update_position(quantity, price)
Fill ==
  \E quantity \in FillQuantities, price \in FillPrices :
    /\ Len(hist.fills) < MaxFills
    /\ strategy' = update_position(strategy, quantity, price)
    /\ last' = [last EXCEPT !.op = "update_position", !.after = last.op]
    /\ hist' = [hist EXCEPT
                  !.fills = Append(@, [quantity |-> quantity, price |-> price])]
    /\ UNCHANGED <<bids_, asks_, next_order_id_, assert_failed, stderr_warn,
                   file_, line, event_opt, stderr_error, events_processed,
                   metrics, pc, NDEBUG>>

NextStrategy == Fill

SpecStrategy == InitStrategy /\ [][NextStrategy]_vars

\* ------- SpecMetrics: a MetricsLogger from construction to its destructor
\* log_latency is called at most MaxLatencies times
MaxLatencies == 4

\* the timestamps passed to log_latency: local_ts - exchange_ts is 0 or 2,
\* processing_ts - local_ts is 0, 1 or 5
LocalTimestamps == {7, 9}
ProcessingDelays == {0, 1, 5}

\* MetricsLogger::MetricsLogger: the log files opened or not, no latency yet.
\* pc is "idle" while the logger lives and "done" after its destructor
InitMetrics ==
  /\ InitBook
  /\ file_ = [is_open |-> FALSE, eof |-> FALSE]
  /\ line = <<>>
  /\ event_opt = nullopt
  /\ stderr_error = ""
  /\ events_processed = 0
  /\ strategy = ImbalanceStrategy(Num(0, 1))
  /\ \E opened \in BOOLEAN :
       metrics = [is_open |-> opened, total_events_ |-> 0,
                  ingest_latencies_us_ |-> <<>>,
                  processing_latencies_us_ |-> <<>>,
                  summary |-> [ingest |-> nullopt, processing |-> nullopt]]
  /\ pc = "idle"
  /\ NDEBUG = TRUE

\* MetricsLogger::log_latency
log_latency ==
  \E exchange_ts \in Timestamps, local_ts \in LocalTimestamps,
     delay \in ProcessingDelays :
    /\ pc = "idle"
    /\ Len(metrics.processing_latencies_us_) < MaxLatencies
    /\ metrics' =
         IF metrics.is_open
         THEN [metrics EXCEPT
                 !.ingest_latencies_us_ = Append(@, local_ts - exchange_ts),
                 !.processing_latencies_us_ = Append(@, (local_ts + delay) - local_ts),
                 !.total_events_ = @ + 1]
         ELSE metrics
    /\ UNCHANGED <<bids_, asks_, next_order_id_, assert_failed, stderr_warn,
                   last, hist, file_, line, event_opt, stderr_error,
                   events_processed, strategy, pc, NDEBUG>>

\* MetricsLogger::~MetricsLogger with generate_summary
generate_summary ==
  /\ pc = "idle"
  /\ pc' = "done"
  /\ metrics' =
       IF metrics.is_open
       THEN [metrics EXCEPT
               !.summary = [ingest |-> LatencyStatistics(metrics.ingest_latencies_us_),
                            processing |->
                              LatencyStatistics(metrics.processing_latencies_us_)]]
       ELSE metrics
  /\ UNCHANGED <<bids_, asks_, next_order_id_, assert_failed, stderr_warn,
                 last, hist, file_, line, event_opt, stderr_error,
                 events_processed, strategy, NDEBUG>>

NextMetrics == log_latency \/ generate_summary

SpecMetrics == InitMetrics /\ [][NextMetrics]_vars

\* ================================================================ claims
\* what the last call was about
Updated == last.op = "update_order"

VolBefore == IF has_value(last.level) THEN last.level[1].total_volume ELSE 0

QueueBefore == IF has_value(last.level) THEN last.level[1].orders ELSE <<>>

QueueNow == get_orders_at_price(Book, last.price, last.side)

VolNow ==
  IF last.side = "BID"
  THEN get_bid_volume(Book, last.price)
  ELSE get_ask_volume(Book, last.price)

LevelNow == LevelAt(Book, last.price, last.side)

AllLimits ==
  {bids_[p] : p \in DOMAIN bids_} \cup {asks_[p] : p \in DOMAIN asks_}

\* the updated price is a bid strictly above the best ask
BidAboveAsk ==
  /\ last.side = "BID"
  /\ has_value(get_best_ask(Book))
  /\ last.price > get_best_ask(Book)[1]

NonNegative(orders) == \A i \in 1..Len(orders) : orders[i].quantity >= 0

\* the last call had q >= 0 and neither found nor left a negative quantity
\* anywhere in the book (the case C1 and C2 are about is set aside)
FeedNonNegative ==
  /\ last.quantity >= 0
  /\ NonNegative(QueueBefore)
  /\ VolBefore >= 0
  /\ \A l \in AllLimits : NonNegative(l.orders) /\ l.total_volume >= 0

\* C1: every level held by the book has queue sum = total_volume (within
\* 1e-6), order_count = queue length, and an empty queue exactly when
\* total_volume < 1e-8; no assert of validate_invariants fires.
C1_LimitInvariantsHold ==
  /\ ~assert_failed
  /\ \A l \in AllLimits :
       /\ Abs(SumQty(l.orders) - l.total_volume) < TOL
       /\ l.order_count = Len(l.orders)
       /\ (l.orders = <<>>) <=> (l.total_volume < EPS)

\* C2: no synthetic order in any queue has a negative quantity.
C2_NoNegativeQuantity ==
  \A l \in AllLimits : \A i \in 1..Len(l.orders) : l.orders[i].quantity >= 0

\* the order a volume increase is to append
NewOrder ==
  Order(last.id, last.price, last.quantity - VolBefore, last.side, last.timestamp)

IncreaseCase == Updated /\ last.quantity - VolBefore > EPS

\* C3 (as claimed, on a book without negative quantities): when q exceeds the
\* volume v at p by more than 1e-8, one order of quantity q - v with the next
\* id, price p, the side and timestamp is appended at the back of the level's
\* queue, the earlier orders keep their place and quantity, and the id
\* counter advances by one.
C3_IncreaseAppendsAlways ==
  (IncreaseCase /\ FeedNonNegative) =>
    /\ QueueNow = Append(QueueBefore, NewOrder)
    /\ next_order_id_ = last.id + 1

\* C3 (amended): the same for q >= 1e-8, except that a bid priced strictly
\* above the best ask is removed again by the crossed-book repair before
\* update_order returns; the id counter advances by one in both cases.
C3_IncreaseAppends ==
  (IncreaseCase /\ last.quantity >= EPS) =>
    /\ next_order_id_ = last.id + 1
    /\ IF BidAboveAsk
       THEN LevelNow = nullopt
       ELSE QueueNow = Append(QueueBefore, NewOrder)

C3_Witness ==
  /\ IncreaseCase /\ FeedNonNegative
  /\ Len(QueueBefore) >= 2
  /\ QueueNow = Append(QueueBefore, NewOrder)
  /\ next_order_id_ = last.id + 1

\* res is queue o after amount a was taken from its front, amounts of at most
\* tol being left alone: k leading orders, each no larger than the amount
\* still to take, are gone; the next order is cut by the remainder r and
\* stays at the front; the orders behind it are as they were.
FifoConsumed(o, a, tol, res) ==
  \E k \in 0..Len(o) :
    /\ \A j \in 1..k :
         LET still == a - SumQty(SubSeq(o, 1, j - 1))
         IN still > tol /\ o[j].quantity <= still
    /\ LET r == a - SumQty(SubSeq(o, 1, k))
       IN IF r > tol /\ k < Len(o)
          THEN /\ o[k + 1].quantity > r
               /\ res = <<[o[k + 1] EXCEPT !.quantity = @ - r]>>
                          \o SubSeq(o, k + 2, Len(o))
          ELSE res = SubSeq(o, k + 1, Len(o))

DecreaseCase ==
  /\ Updated
  /\ has_value(last.level)
  /\ 0 < last.quantity
  /\ last.quantity < VolBefore

\* C4 (as claimed, on a book without negative quantities and for q >= 1e-8,
\* a part of the claim's cases): for q < v at an existing level the amount
\* v - q is consumed from the front of the queue, oldest first.
C4_FifoReductionExact ==
  (DecreaseCase /\ FeedNonNegative /\ last.quantity >= EPS) => FifoConsumed(QueueBefore, VolBefore - last.quantity, 0, QueueNow)

\* C4 (amended): for q >= 1e-8 and v - q > 1e-8 the amount v - q is consumed
\* from the front, oldest first, as long as the amount still to consume
\* exceeds 1e-8; a remainder of at most 1e-8 is left unconsumed.
C4_FifoReduction ==
  (DecreaseCase /\ last.quantity >= EPS /\ VolBefore - last.quantity > EPS) =>
    FifoConsumed(QueueBefore, VolBefore - last.quantity, EPS, QueueNow)

\* one order removed whole, the next one cut, the third untouched
C4_Witness ==
  /\ FeedNonNegative
  /\ DecreaseCase /\ last.quantity >= EPS /\ VolBefore - last.quantity > EPS
  /\ Len(QueueBefore) = 3
  /\ Len(QueueNow) = 2
  /\ QueueNow[1].order_id = QueueBefore[2].order_id
  /\ QueueNow[1].quantity < QueueBefore[2].quantity
  /\ QueueNow[2] = QueueBefore[3]

\* C5 (as claimed, on a book without negative quantities and for q >= 1e-8,
\* a part of the claim's cases): after update_order(p, q, side, t) the volume
\* reported at p on that side equals q.
C5_VolumeIsQuantity ==
  (Updated /\ last.quantity >= EPS /\ FeedNonNegative) => VolNow = last.quantity

\* C5 (amended): after update_order(p, q, side, t) with q >= 1e-8 the volume
\* reported at p is within 1e-8 of q, except for a bid priced strictly above
\* the best ask, whose level the repair removes (volume 0).
C5_VolumeReplaced ==
  (Updated /\ last.quantity >= EPS) =>
    IF BidAboveAsk
    THEN VolNow = 0 /\ LevelNow = nullopt
    ELSE Abs(VolNow - last.quantity) <= EPS

C5_Witness ==
  /\ FeedNonNegative
  /\ Updated /\ last.quantity >= EPS
  /\ has_value(last.level)
  /\ VolBefore > last.quantity + EPS
  /\ VolNow = last.quantity

\* C6: update_order(p, 0, side, t) leaves no level at p on that side: the
\* queue read at p is empty and the volume at p is 0.
C6_ZeroRemovesLevel ==
  (Updated /\ last.quantity = 0) =>
    /\ LevelNow = nullopt
    /\ QueueNow = <<>>
    /\ VolNow = 0

C6_Witness ==
  /\ FeedNonNegative
  /\ Updated /\ last.quantity = 0
  /\ Len(QueueBefore) >= 2
  /\ LevelNow = nullopt

BothSides == has_value(get_best_bid(Book)) /\ has_value(get_best_ask(Book))

\* C7 (as claimed, on a book without negative quantities): after update_order
\* returns, if both sides are non-empty the best bid is strictly below the
\* best ask.
C7_StrictlyUncrossed ==
  (Updated /\ BothSides /\ FeedNonNegative) => get_best_bid(Book)[1] < get_best_ask(Book)[1]

\* C7 (amended): after update_order returns, if both sides are non-empty the
\* best bid is at most the best ask (equal prices are left in place).
C7_Uncrossed ==
  (Updated /\ BothSides) => get_best_bid(Book)[1] <= get_best_ask(Book)[1]

C7_Witness ==
  /\ Updated /\ BothSides /\ FeedNonNegative
  /\ last.quantity >= EPS
  /\ get_best_bid(Book)[1] = get_best_ask(Book)[1]

\* C8: an update_order call whose volume change puts the best bid above the
\* best ask logs the crossed-book warning and returns with a book that is not
\* crossed; after every call the spread, when defined, is not negative.
C8_CrossedBookRepaired ==
  [][ /\ ( /\ last'.op = "update_order"
           /\ Abs(last'.quantity) >= EPS
           /\ Crossed(add_order(Book, last'.price, last'.quantity,
                                last'.side, last'.timestamp)) )
         => (stderr_warn' /\ ~Crossed(Book'))
      /\ has_value(get_spread(Book')) => get_spread(Book')[1] >= 0 ]_vars

\* a bid arrived above the best ask, over a resting bid, and the book came
\* back uncrossed
C8_Witness ==
  /\ Updated /\ stderr_warn
  /\ last.side = "BID"
  /\ FeedNonNegative
  /\ BothSides
  /\ get_spread(Book)[1] >= 0

\* C9 (as claimed): after update_order calls with nonzero quantities only, the
\* best bid is the highest bid price inserted and the best ask the lowest ask
\* price inserted.
C9_BestIsExtremeInserted ==
  /\ hist.ins_bids # {} => get_best_bid(Book) = <<MaxOf(hist.ins_bids)>>
  /\ hist.ins_asks # {} => get_best_ask(Book) = <<MinOf(hist.ins_asks)>>

\* C9 (amended): after update_order calls with quantities of at least 1e-8
\* only, the best bid is the highest bid price inserted that
\* crossed-book repair has not removed since (absent if there is none), and
\* the best ask is the lowest ask price inserted.
C9_BestIsExtremeKept ==
  /\ get_best_bid(Book) =
       IF hist.live_bids = {} THEN nullopt ELSE <<MaxOf(hist.live_bids)>>
  /\ get_best_ask(Book) =
       IF hist.ins_asks = {} THEN nullopt ELSE <<MinOf(hist.ins_asks)>>

\* two bids inserted, the higher one removed by the repair, the lower one best
C9_Witness ==
  /\ Cardinality(hist.ins_bids) >= 2
  /\ hist.live_bids # {}
  /\ hist.live_bids # hist.ins_bids
  /\ get_best_bid(Book) = <<MaxOf(hist.live_bids)>>
  /\ get_best_ask(Book) = <<MinOf(hist.ins_asks)>>

\* C10 (as claimed): clear() followed by update_order(p, q, side, t) with
\* q > 0 leaves at p a queue of one order of quantity q with id 1, volume q.
C10_ResyncAnyPositive ==
  (Updated /\ last.after = "clear" /\ last.quantity > 0) =>
    /\ QueueNow = <<Order(1, last.price, last.quantity, last.side, last.timestamp)>>
    /\ VolNow = last.quantity

\* C10 (amended): the same for q >= 1e-8 (a smaller q leaves no level at p).
C10_Resync ==
  (Updated /\ last.after = "clear" /\ last.quantity >= EPS) =>
    /\ QueueNow = <<Order(1, last.price, last.quantity, last.side, last.timestamp)>>
    /\ VolNow = last.quantity

C10_Witness ==
  /\ Updated /\ last.after = "clear" /\ last.quantity >= EPS
  /\ QueueNow = <<Order(1, last.price, last.quantity, last.side, last.timestamp)>>
  /\ next_order_id_ = 2

\* C11: after clear(), from any state, best bid, best ask, mid price and
\* spread are absent, every get_orders_at_price is empty, every volume and
\* depth query returns 0 / nothing, and no order is held by the book.
C11_ClearEmptiesBook ==
  last.op = "clear" =>
    /\ get_best_bid(Book) = nullopt
    /\ get_best_ask(Book) = nullopt
    /\ get_mid_price(Book) = nullopt
    /\ get_spread(Book) = nullopt
    /\ \A p \in Prices :
         /\ get_bid_volume(Book, p) = 0
         /\ get_ask_volume(Book, p) = 0
         /\ \A s \in Sides : get_orders_at_price(Book, p, s) = <<>>
    /\ \A n \in Depths :
         /\ get_total_bid_volume(Book, n) = 0
         /\ get_total_ask_volume(Book, n) = 0
         /\ get_bid_depth(Book, n).result = <<>>
         /\ get_ask_depth(Book, n).result = <<>>
    /\ AllLimits = {}

\* clear() was called on a book in which three orders had been created by
\* update_order calls
C11_Witness ==
  /\ last.op = "clear"
  /\ last.after = "update_order"
  /\ last.id = MaxOrderId + 1

\* the ids the call that made the step handed out
StepIds ==
  IF last'.op = "update_order"
  THEN CreatedIds(Book, last'.price, last'.quantity, last'.side, last'.timestamp)
  ELSE {}

\* C12 (as claimed): over the lifetime of the book, across update_order and
\* clear calls, an id handed to a new order was never handed out before and is
\* larger than every id handed out before.
C12_IdsNeverReused ==
  [][\A i \in StepIds : i \notin hist.ids /\ \A j \in hist.ids : j < i]_vars

\* C12 (amended): an id handed to a new order is larger than every id handed
\* out since the last clear() (or since construction); clear() restarts the
\* counter at 1, so ids are handed out again after it.
C12_IdsUniqueBetweenClears ==
  [][ /\ \A i \in StepIds : i \notin hist.epoch /\ \A j \in hist.epoch : j < i
      /\ last'.op = "clear" => next_order_id_' = 1 ]_vars

\* ids 1 and 2 were handed out after a clear(), id 3 before it
C12_Witness ==
  /\ Updated
  /\ last.id = 2
  /\ hist.epoch = {1, 2}
  /\ hist.ids = {1, 2, 3}

\* the last update found a level at (price, side) whose volume is within 1e-8
\* of the quantity sent
RebroadcastCase ==
  /\ Updated
  /\ has_value(last.level)
  /\ Abs(last.quantity - VolBefore) <= EPS

\* the book left by making the last update_order call once more
Repeated ==
  UpdateResult(Book, last.price, last.quantity, last.side, last.timestamp)

\* C13 (as claimed, on a book without negative quantities): an update whose
\* quantity is within 1e-8 of the volume of an existing level leaves the
\* level (queue and volume) and the id counter as they were, and any update
\* applied a second time leaves the book and the id counter as the first
\* application left them.
C13_RebroadcastNoOpAlways ==
  FeedNonNegative =>
    /\ RebroadcastCase => (LevelNow = last.level /\ next_order_id_ = last.id)
    /\ Updated => /\ Repeated.bids_ = bids_
                  /\ Repeated.asks_ = asks_
                  /\ Repeated.next_order_id_ = next_order_id_

\* C13 (amended): the same for quantities of at least 1e-8 (a smaller one
\* removes the level); a second application leaves both sides as the first
\* left them, and the id counter too unless the update is a bid priced
\* strictly above the best ask, which takes a new id each time.
C13_RebroadcastNoOp ==
  /\ (RebroadcastCase /\ last.quantity >= EPS) =>
       (LevelNow = last.level /\ next_order_id_ = last.id)
  /\ Updated => /\ Repeated.bids_ = bids_
                /\ Repeated.asks_ = asks_
                /\ ~BidAboveAsk => Repeated.next_order_id_ = next_order_id_

\* a rebroadcast that differs from the level's volume by exactly 1e-8 left
\* the level alone
C13_Witness ==
  /\ RebroadcastCase /\ FeedNonNegative
  /\ last.quantity >= EPS
  /\ Abs(last.quantity - VolBefore) = EPS
  /\ LevelNow = last.level

\* the levels of a side whose price is in S, as they are
Restrict(levels, S) == [p \in DOMAIN levels \cap S |-> levels[p]]

\* the bid levels not above the best ask, and then the ask levels not below
\* the best bid left
KeptBids(book) ==
  Restrict(book.bids_, {p \in Prices : p <= get_best_ask(book)[1]})

KeptAsks(book) ==
  Restrict(book.asks_,
           {p \in Prices : \A b \in DOMAIN KeptBids(book) : p >= b})

\* C14: when add_order leaves the best bid above the best ask, update_order
\* returns with exactly the bid levels priced above the best ask and the ask
\* levels priced below the best bid left removed, every other level as it
\* was; when it does not (best bid = best ask included), every level is as
\* add_order left it.
C14_RepairRemovesCrossingOnly ==
  [][ (last'.op = "update_order" /\ Abs(last'.quantity) >= EPS) =>
        LET a == add_order(Book, last'.price, last'.quantity,
                           last'.side, last'.timestamp)
        IN IF Crossed(a)
           THEN bids_' = KeptBids(a) /\ asks_' = KeptAsks(a)
           ELSE bids_' = a.bids_ /\ asks_' = a.asks_ ]_vars

\* an ask arrived below the best bid; the repair ran and a bid level not
\* above the ask is still there
C14_Witness ==
  /\ Updated /\ stderr_warn
  /\ last.side = "ASK"
  /\ FeedNonNegative
  /\ BothSides
  /\ get_best_bid(Book)[1] <= last.price

\* C15: the best bid (ask) is absent exactly when the bid (ask) side has no
\* level and is otherwise the highest bid (lowest ask) price present; mid
\* price and spread are defined exactly when both sides have a level, and
\* then mid = (best_bid + best_ask) / 2 and spread = best_ask - best_bid.
C15_BestMidSpread ==
  /\ has_value(get_best_bid(Book)) <=> DOMAIN bids_ # {}
  /\ has_value(get_best_ask(Book)) <=> DOMAIN asks_ # {}
  /\ DOMAIN bids_ # {} =>
       /\ get_best_bid(Book)[1] \in DOMAIN bids_
       /\ \A p \in DOMAIN bids_ : p <= get_best_bid(Book)[1]
  /\ DOMAIN asks_ # {} =>
       /\ get_best_ask(Book)[1] \in DOMAIN asks_
       /\ \A p \in DOMAIN asks_ : p >= get_best_ask(Book)[1]
  /\ has_value(get_mid_price(Book)) <=> (DOMAIN bids_ # {} /\ DOMAIN asks_ # {})
  /\ has_value(get_spread(Book)) <=> (DOMAIN bids_ # {} /\ DOMAIN asks_ # {})
  /\ (DOMAIN bids_ # {} /\ DOMAIN asks_ # {}) =>
       /\ 2 * get_mid_price(Book)[1].num =
            (get_best_bid(Book)[1] + get_best_ask(Book)[1]) * get_mid_price(Book)[1].den
       /\ get_mid_price(Book)[1].den > 0
       /\ get_spread(Book)[1] = get_best_ask(Book)[1] - get_best_bid(Book)[1]

\* two bid levels and an ask level above them: the mid price is not a whole
\* price and the spread is positive
C15_Witness ==
  /\ Cardinality(DOMAIN bids_) = 2
  /\ DOMAIN asks_ # {}
  /\ get_spread(Book) = <<1>>
  /\ get_mid_price(Book) = <<Ratio(2 * get_best_bid(Book)[1] + 1, 2)>>
  /\ \A l \in AllLimits : NonNegative(l.orders)

SmallerOf(a, b) == IF a <= b THEN a ELSE b

\* d is the first entries of a side's levels: as many as asked for or as there
\* are, each a (price, volume of that level) pair, prices strictly falling
\* (sign = 1) or rising (sign = -1), and no level left out is ahead of one
\* that is in
FirstLevels(d, levels, n, sign) ==
  /\ Len(d) = SmallerOf(n, Cardinality(DOMAIN levels))
  /\ \A i \in 1..Len(d) :
       /\ d[i][1] \in DOMAIN levels
       /\ d[i][2] = levels[d[i][1]].total_volume
  /\ \A i \in 1..(Len(d) - 1) : sign * d[i][1] > sign * d[i + 1][1]
  /\ \A p \in DOMAIN levels :
       (\A i \in 1..Len(d) : d[i][1] # p) =>
         \A i \in 1..Len(d) : sign * d[i][1] > sign * p

\* C16: get_bid_depth(n) and get_ask_depth(n) never fail and return min(n,
\* levels of the side) (price, volume) pairs, the first of the side in its
\* order (bids from the highest price down, asks from the lowest up), for
\* every n >= 0.
C16_DepthIsFirstLevels ==
  \A n \in Depths :
    /\ get_bid_depth(Book, n).thrown = ""
    /\ get_ask_depth(Book, n).thrown = ""
    /\ FirstLevels(get_bid_depth(Book, n).result, bids_, n, 1)
    /\ FirstLevels(get_ask_depth(Book, n).result, asks_, n, -1)

\* C16, for the n that reserve(n) accepts: the pairs returned are the first
\* levels of the side.
C16_DepthWithinMaxSize ==
  \A n \in {d \in Depths : d <= max_size} :
    /\ get_bid_depth(Book, n).thrown = ""
    /\ get_ask_depth(Book, n).thrown = ""
    /\ FirstLevels(get_bid_depth(Book, n).result, bids_, n, 1)
    /\ FirstLevels(get_ask_depth(Book, n).result, asks_, n, -1)

\* the ratio r lies in [-1, 1]
InUnitRange(r) == r.den > 0 /\ -r.den <= r.num /\ r.num <= r.den

\* C17: in every reachable book and for every depth, calculate_imbalance
\* lies in [-1, 1].
C17_ImbalanceInRange ==
  \A n \in Depths : InUnitRange(calculate_imbalance(Book, n))

\* C17, on books whose levels all have a volume >= 0.
C17_ImbalanceInRangeNonNegative ==
  (\A l \in AllLimits : l.total_volume >= 0) =>
    \A n \in Depths : InUnitRange(calculate_imbalance(Book, n))

RECURSIVE SumVolume(_, _)
SumVolume(levels, S) ==
  IF S = {}
  THEN 0
  ELSE LET p == CHOOSE x \in S : TRUE
       IN levels[p].total_volume + SumVolume(levels, S \ {p})

\* the volume of the bid (ask) levels that have fewer than depth levels of
\* their side at a better price
TopBidVolume(depth) ==
  SumVolume(bids_, {p \in DOMAIN bids_ :
                      Cardinality({x \in DOMAIN bids_ : x > p}) < depth})

TopAskVolume(depth) ==
  SumVolume(asks_, {p \in DOMAIN asks_ :
                      Cardinality({x \in DOMAIN asks_ : x < p}) < depth})

\* C18: calculate_imbalance(depth) is (B - A) / (B + A) for the volumes B and
\* A of the top depth bid and ask levels, and 0 when B + A is below 1e-8; the
\* divisor is never 0.
C18_ImbalanceFormula ==
  \A n \in Depths :
    LET r == calculate_imbalance(Book, n)
        B == TopBidVolume(n)
        A == TopAskVolume(n)
    IN /\ r.den # 0
       /\ IF B + A < EPS
          THEN r.num = 0
          ELSE r.num * (B + A) = (B - A) * r.den

\* two bid levels and an ask level, volumes >= 0: the imbalance over one level
\* is below zero and over two levels above zero, and over no level it is 0
C18_Witness ==
  /\ Cardinality(DOMAIN bids_) = 2
  /\ DOMAIN asks_ # {}
  /\ \A l \in AllLimits : NonNegative(l.orders)
  /\ calculate_imbalance(Book, 1).num < 0
  /\ calculate_imbalance(Book, 2).num > 0
  /\ calculate_imbalance(Book, 0) = Ratio(0, 1)

\* the fields that are numbers written in full
UnsignedLiterals == {"0", "1", "2", "3", "7", "8"}

DecimalLiterals == UnsignedLiterals \cup {"-3"}

\* exactly 7 fields: three unsigned integers, SNAPSHOT or UPDATE, two decimal
\* numbers, BID or ASK
WellFormedLine(l) ==
  /\ Len(l) = 7
  /\ \A i \in {1, 2, 3} : l[i] \in UnsignedLiterals
  /\ l[4] \in {"SNAPSHOT", "UPDATE"}
  /\ \A i \in {5, 6} : l[i] \in DecimalLiterals
  /\ l[7] \in {"BID", "ASK"}

\* C19: read_next returns an event for a line exactly when the line has 7
\* well-formed fields with event type SNAPSHOT or UPDATE and side BID or ASK;
\* any other line gives no event and an error message.
C19_AcceptsExactlyWellFormed ==
  line # <<>> =>
    /\ has_value(event_opt) <=> WellFormedLine(line)
    /\ ~has_value(event_opt) => stderr_error # ""

\* C19, the half that holds: a well-formed line gives its event, and a line
\* that gives none has left an error message.
C19_WellFormedAccepted ==
  line # <<>> =>
    /\ WellFormedLine(line) => has_value(event_opt)
    /\ ~has_value(event_opt) => stderr_error # ""

\* C20: a turn of the replay loop in which read_next read a line and returned
\* no event leaves the book, the strategy (position, PnL), the processed-event
\* counter and the metrics as they were; a line that gives an event after
\* that is applied to the book and counted.
C20_MalformedLineSkipped ==
  [][ /\ (pc' = "loop" /\ line' # <<>> /\ ~has_value(event_opt')) =>
           UNCHANGED <<bids_, asks_, next_order_id_, strategy,
                       events_processed, metrics>>
      /\ (line # <<>> /\ ~has_value(event_opt) /\ has_value(event_opt')) =>
           /\ Book' = [k \in {"bids_", "asks_", "next_order_id_"} |->
                         UpdateResult(Book, event_opt'[1].price,
                                      event_opt'[1].quantity, event_opt'[1].side,
                                      event_opt'[1].exchange_ts)[k]]
           /\ events_processed' = events_processed + 1 ]_vars

\* a line was skipped after a trade had given the strategy a position, and
\* the loop goes on
C20_Witness ==
  /\ pc = "loop"
  /\ line # <<>>
  /\ ~has_value(event_opt)
  /\ stderr_error # ""
  /\ has_more
  /\ metrics.trades = 1
  /\ strategy.position_ = Num(Lot, 1)
  /\ DOMAIN bids_ # {}

\* C21: on every finite event file the replay loop is left and main reaches
\* its final statistics.
C21_ReplayTerminates == <>(pc = "done")

\* the loop never runs forever: main reaches its final statistics or aborts,
\* and it reaches them in every build with NDEBUG
C21_LoopIsLeft ==
  /\ <>(pc \in {"done", "aborted"})
  /\ NDEBUG => <>(pc = "done")

OneRecordEach ==
  /\ metrics'.trades = metrics.trades + 1
  /\ metrics'.inventory = metrics.inventory + 1
  /\ metrics'.pnl = metrics.pnl + 1

NoRecord ==
  /\ metrics'.trades = metrics.trades
  /\ metrics'.inventory = metrics.inventory
  /\ metrics'.pnl = metrics.pnl

\* the turn left the position, the PnL and the average entry price alone
PositionKept ==
  /\ strategy'.position_ = strategy.position_
  /\ strategy'.pnl_ = strategy.pnl_
  /\ strategy'.avg_entry_price_ = strategy.avg_entry_price_

\* the turn recorded a fill of signal * 0.01 at the mid price of the book
\* the event left
PositionUpdated(signal) ==
  /\ has_value(get_mid_price(Book'))
  /\ strategy' =
       update_position(evaluate_effect(strategy, Book'), Num(signal * Lot, 1),
                       Num(get_mid_price(Book')[1].num, get_mid_price(Book')[1].den))
  /\ strategy'.position_ = Plus(strategy.position_, Num(signal * Lot, 1))

AboveTenths(r, t) == 10 * r.num > t * r.den
BelowMinusTenths(r, t) == 10 * r.num < -t * r.den

\* C24: on every book, ImbalanceStrategy(0.3, 5)::evaluate returns +1, -1 or
\* 0: +1 exactly when calculate_imbalance(5) > 0.3, -1 exactly when it is
\* < -0.3, 0 otherwise, and 0 on an empty book; it leaves imbalance in
\* last_imbalance_ and nothing else of the strategy changes.
C24_SignalFollowsImbalance ==
  /\ ImbalanceStrategy_evaluate(strategy, Book) \in {-1, 0, 1}
  /\ calculate_imbalance(Book, 5).den > 0
  /\ ImbalanceStrategy_evaluate(strategy, Book) = 1
       <=> AboveTenths(calculate_imbalance(Book, 5), 3)
  /\ ImbalanceStrategy_evaluate(strategy, Book) = -1
       <=> BelowMinusTenths(calculate_imbalance(Book, 5), 3)
  /\ (DOMAIN bids_ = {} /\ DOMAIN asks_ = {})
       => ImbalanceStrategy_evaluate(strategy, Book) = 0
  /\ evaluate_effect(strategy, Book) =
       [strategy EXCEPT !.last_imbalance_ =
          Num(calculate_imbalance(Book, 5).num, calculate_imbalance(Book, 5).den)]

\* a two-sided book of non-negative quantities with the asks heavy enough
\* for the sell signal, and not all volume on the ask side
C24_Witness ==
  /\ BothSides
  /\ FeedNonNegative
  /\ ImbalanceStrategy_evaluate(strategy, Book) = -1
  /\ TopBidVolume(5) >= EPS

\* the last step was a fill
Filled == last'.op = "update_position"

\* the arguments of the fill
FillOf(h) == h.fills[Len(h.fills)]

\* position_ + quantity of the fill
NewPosition == Plus(strategy.position_, FillOf(hist').quantity)

\* (old_position * old_avg + quantity * price) / new_position, in real
\* arithmetic: a position of 0 contributes nothing
Blend ==
  Over(Plus(IF strategy.position_ = Num(0, 1)
            THEN Num(0, 1)
            ELSE Times(strategy.position_, strategy.avg_entry_price_),
            Times(FillOf(hist').quantity, FillOf(hist').price)),
       NewPosition)

\* C25: every fill adds -quantity * (price - avg_entry_price) to pnl, with
\* the average entry price held before the fill, sets position to position +
\* quantity and sets the average entry price to the position-weighted blend
\* (old_position * old_avg + quantity * price) / new_position.
C25_FillUpdatesPnlAndAverage ==
  [][Filled =>
       /\ strategy'.pnl_ =
            Plus(strategy.pnl_,
                 Times(Minus(Num(0, 1), FillOf(hist').quantity),
                       Minus(FillOf(hist').price, strategy.avg_entry_price_)))
       /\ strategy'.position_ = NewPosition
       /\ NewPosition # Num(0, 1)
       /\ strategy'.avg_entry_price_ = Blend]_vars

\* what update_position does on every fill when the average entry price
\* holds a number: pnl changes by -quantity * (price - avg) only if the
\* position before is not 0; position becomes position + quantity; the
\* average becomes the blend if |position + quantity| > 1e-8 and 0 otherwise
C25_FillAsCoded ==
  [][(Filled /\ ~strategy.avg_entry_price_.nan) =>
       /\ strategy'.pnl_ =
            IF strategy.position_ # Num(0, 1)
            THEN Plus(strategy.pnl_,
                      Times(Minus(Num(0, 1), FillOf(hist').quantity),
                            Minus(FillOf(hist').price, strategy.avg_entry_price_)))
            ELSE strategy.pnl_
       /\ strategy'.position_ = NewPosition
       /\ strategy'.avg_entry_price_ =
            IF Greater(AbsNum(NewPosition), PositionEps)
            THEN Blend
            ELSE Num(0, 1)]_vars

\* the fill takes the position to zero or to the other side of zero
CrossesZero ==
  \/ NewPosition = Num(0, 1)
  \/ strategy.position_.num > 0 /\ NewPosition.num < 0
  \/ strategy.position_.num < 0 /\ NewPosition.num > 0

\* C26: whenever a fill makes the position cross through zero (the position
\* after it is zero or of the opposite sign), the average entry price is
\* zero after the call.
C26_CrossingResetsAverage ==
  [][(Filled /\ CrossesZero) => strategy'.avg_entry_price_ = Num(0, 1)]_vars

\* the average entry price is zero after a fill exactly when the position it
\* leaves is within 1e-8 of zero or the blend itself is zero
C26_FlatResetsAverage ==
  [][(Filled /\ ~strategy.avg_entry_price_.nan) =>
       /\ ~Greater(AbsNum(NewPosition), PositionEps)
            => strategy'.avg_entry_price_ = Num(0, 1)
       /\ Greater(AbsNum(NewPosition), PositionEps)
            => strategy'.avg_entry_price_ = Blend]_vars

\* position / inventory_limit is above 0.7, below -0.7 (inventory_limit 10.0)
LongSkew(position) == position.num > 1400000000
ShortSkew(position) == position.num < -1400000000

\* C27: on every book, MarketMakingStrategy::evaluate returns -1 whenever
\* position / inventory_limit > 0.7 and +1 whenever it is < -0.7.
C27_SkewAlwaysSignals ==
  \A g \in RiskAversions, q \in InventoryPositions :
    /\ LongSkew(q) =>
         MarketMakingStrategy_evaluate(MarketMakingStrategy(g, q), Book) = -1
    /\ ShortSkew(q) =>
         MarketMakingStrategy_evaluate(MarketMakingStrategy(g, q), Book) = 1

\* C27 amended: it does so on every book that has a mid price, whatever the
\* reservation price says; on a book without one (a side is empty) evaluate
\* returns 0 whatever the position is.
C27_SkewSignalsWithMidPrice ==
  \A g \in RiskAversions, q \in InventoryPositions :
    IF has_value(get_mid_price(Book))
    THEN /\ LongSkew(q) =>
              MarketMakingStrategy_evaluate(MarketMakingStrategy(g, q), Book) = -1
         /\ ShortSkew(q) =>
              MarketMakingStrategy_evaluate(MarketMakingStrategy(g, q), Book) = 1
    ELSE MarketMakingStrategy_evaluate(MarketMakingStrategy(g, q), Book) = 0

\* a two-sided book on which a position of 8.0 with risk_aversion 0 gets the
\* sell signal from the inventory test alone, and a small position is held
C27_Witness ==
  /\ DOMAIN bids_ # {} /\ DOMAIN asks_ # {}
  /\ MarketMakingStrategy_evaluate(
       MarketMakingStrategy(Num(0, 1), Num(1600000000, 1)), Book) = -1
  /\ MarketMakingStrategy_evaluate(
       MarketMakingStrategy(Num(0, 1), Num(Lot, 1)), Book) = 0
  /\ MarketMakingStrategy_evaluate(
       MarketMakingStrategy(Num(1, 10), Num(-Lot, 1)), Book) = 1

\* the elements of a sequence
Elements(data) == {data[i] : i \in 1..Len(data)}

\* data is in ascending order
IsAscending(data) == \A i \in 1..(Len(data) - 1) : data[i] <= data[i + 1]

\* x is the element at index floor(percentile/100 * (n - 1)) (counted from
\* 0) of the ascending data: k is that floor, at most k elements are
\* strictly below x and at least k + 1 are at most x
AtFloorIndex(x, data, percentile) ==
  \E k \in 0..(Len(data) - 1) :
    /\ 100 * k <= percentile * (Len(data) - 1)
    /\ percentile * (Len(data) - 1) < 100 * (k + 1)
    /\ data[k + 1] = x
    /\ Cardinality({i \in 1..Len(data) : data[i] < x}) <= k
    /\ Cardinality({i \in 1..Len(data) : data[i] <= x}) >= k + 1

\* one block of the summary against the latencies logged
PercentilesOf(stats, latencies) ==
  IF latencies = <<>>
  THEN stats = nullopt
  ELSE /\ has_value(stats)
       /\ IsAscending(sort(latencies))
       /\ Elements(sort(latencies)) = Elements(latencies)
       /\ Len(sort(latencies)) = Len(latencies)
       /\ AtFloorIndex(stats[1].p50, sort(latencies), P50)
       /\ AtFloorIndex(stats[1].p95, sort(latencies), P95)
       /\ AtFloorIndex(stats[1].p99, sort(latencies), P99)
       /\ {stats[1].p50, stats[1].p95, stats[1].p99} \subseteq Elements(latencies)
       /\ \A x \in Elements(latencies) : stats[1].min <= x /\ x <= stats[1].max
       /\ stats[1].min <= stats[1].p50
       /\ stats[1].p50 <= stats[1].p95
       /\ stats[1].p95 <= stats[1].p99
       /\ stats[1].p99 <= stats[1].max

\* C28: on the ascending-sorted copy of n > 0 latencies calculate_percentile
\* returns the element at index floor(p * (n - 1)), so each percentile of the
\* summary is one of the latencies and min <= p50 <= p95 <= p99 <= max; on
\* an empty vector it returns 0.
C28_PercentileIsNearestRank ==
  /\ \A p \in {P50, P95, P99} : calculate_percentile(<<>>, p) = 0
  /\ (pc = "done" /\ metrics.is_open) =>
       /\ PercentilesOf(metrics.summary.ingest, metrics.ingest_latencies_us_)
       /\ PercentilesOf(metrics.summary.processing,
                        metrics.processing_latencies_us_)

\* the summary of four latencies 5, 0, 1, 1, logged out of order: p50 is the
\* second smallest, p95 and p99 the third, below the maximum
C28_Witness ==
  /\ pc = "done"
  /\ metrics.processing_latencies_us_ = <<5, 0, 1, 1>>
  /\ metrics.summary.processing =
       <<[min |-> 0, p50 |-> 1, p95 |-> 1, p99 |-> 1, max |-> 5]>>

\* C29: every price level the book holds has at least one order and a total
\* volume above zero, so the best bid and the best ask are never prices whose
\* volume is zero.
C29_NoEmptyLevel ==
  /\ \A l \in AllLimits : l.orders # <<>> /\ l.total_volume > 0
  /\ has_value(get_best_bid(Book)) => get_bid_volume(Book, get_best_bid(Book)[1]) > 0
  /\ has_value(get_best_ask(Book)) => get_ask_volume(Book, get_best_ask(Book)[1]) > 0

\* the same of a book fed quantities >= 0 only, where every level created
\* has a volume of at least 1e-8 and every order in it a quantity above zero
C29_NoEmptyLevelNonNegativeFeed ==
  /\ C29_NoEmptyLevel
  /\ \A l \in AllLimits :
       l.total_volume >= EPS /\ \A i \in 1..Len(l.orders) : l.orders[i].quantity > 0

\* the call is update_order(price, quantity, side, ...) with |quantity| >=
\* 1e-8, so that add_order and validate_book_integrity run
Validated(side) ==
  /\ last'.op = "update_order"
  /\ Abs(last'.quantity) >= EPS
  /\ last'.side = side

\* C30: in every update_order that reaches validate_book_integrity the ask
\* side is left as add_order made it and only bid levels are removed.  A bid
\* update priced strictly above the best ask is itself discarded (the bid
\* side and the ask side end as they were, the warning logged); an ask
\* update priced strictly below the best bid stays, becomes the best ask, and
\* exactly the bid levels above it are deleted.
C30_RepairIsOneSided ==
  [][ /\ (Validated("BID") \/ Validated("ASK")) =>
           /\ asks_' = add_order(Book, last'.price, last'.quantity, last'.side,
                                 last'.timestamp).asks_
           /\ DOMAIN bids_' \subseteq
                DOMAIN add_order(Book, last'.price, last'.quantity, last'.side,
                                 last'.timestamp).bids_
           /\ \A p \in DOMAIN bids_' :
                bids_'[p] = add_order(Book, last'.price, last'.quantity,
                                      last'.side, last'.timestamp).bids_[p]
      /\ ( /\ Validated("BID")
           /\ has_value(get_best_ask(Book))
           /\ last'.price > get_best_ask(Book)[1] ) =>
           /\ last'.price \notin DOMAIN bids_'
           /\ bids_' = bids_
           /\ asks_' = asks_
           /\ stderr_warn'
      /\ ( /\ Validated("ASK")
           /\ has_value(get_best_bid(Book))
           /\ last'.price < get_best_bid(Book)[1] ) =>
           /\ last'.price \in DOMAIN asks_'
           /\ get_best_ask(Book') = <<last'.price>>
           /\ bids_' = Restrict(bids_, {p \in Prices : p <= last'.price})
           /\ stderr_warn' ]_vars

\* a bid arrived above the best ask and was discarded: the warning was
\* logged, no bid is at its price, and both sides still have levels
C30_Witness ==
  /\ Updated /\ stderr_warn
  /\ last.side = "BID"
  /\ last.quantity >= EPS
  /\ last.price \notin DOMAIN bids_
  /\ DOMAIN bids_ # {}
  /\ DOMAIN asks_ # {}
  /\ last.price > get_best_ask(Book)[1]

\* every (side, price, position) of an order resting in the book
Resting ==
  {<<s, p, i>> \in Sides \X Prices \X (1..(MaxOrderId + 1)) :
     i <= Len(get_orders_at_price(Book, p, s))}

RestingId(r) == get_orders_at_price(Book, r[2], r[1])[r[3]].order_id

\* orders the call update_order(last'.price, last'.quantity, ...) appends:
\* one when it opens a level or raises a level's volume by more than 1e-8
OrdersCreated ==
  IF last'.op # "update_order" \/ Abs(last'.quantity) < EPS THEN 0
  ELSE IF ~has_value(last'.level) THEN 1
  ELSE IF last'.quantity - last'.level[1].total_volume > EPS THEN 1
  ELSE 0

\* C31: in every reachable book the resting orders have pairwise distinct
\* ids, each smaller than next_order_id_, and within one queue the ids rise
\* strictly from front to back; an update_order call advances
\* next_order_id_ by exactly the number of orders it creates, so not at all
\* on a decrease, a no-op, a removal or a repair.
C31_IdsDistinctAndCounted ==
  [][ /\ \A r \in Resting : RestingId(r) < next_order_id_
      /\ \A r1, r2 \in Resting : r1 # r2 => RestingId(r1) # RestingId(r2)
      /\ \A r1, r2 \in Resting :
           (r1[1] = r2[1] /\ r1[2] = r2[2] /\ r1[3] < r2[3]) =>
             RestingId(r1) < RestingId(r2)
      /\ last'.op = "update_order" =>
           next_order_id_' = next_order_id_ + OrdersCreated ]_vars

\* a level's volume was just reduced with two orders resting in the book:
\* the counter stayed where the call found it
C31_Witness ==
  /\ Updated
  /\ has_value(last.level)
  /\ last.quantity >= EPS
  /\ last.quantity < VolBefore - EPS
  /\ next_order_id_ = last.id
  /\ Cardinality(Resting) = 2

\* the order with this id is in the queue
InQueue(orders, order_id) == \E k \in 1..Len(orders) : orders[k].order_id = order_id

\* the order before[j] is no longer in the queue after, or is there with a
\* smaller quantity
Departing(before, after, j) ==
  \/ ~InQueue(after, before[j].order_id)
  \/ \E k \in 1..Len(after) : /\ after[k].order_id = before[j].order_id
                               /\ after[k].quantity < before[j].quantity

OldestFirst(before, after) ==
  /\ \A i, j \in 1..Len(before) :
       (i < j /\ Departing(before, after, j)) =>
         ~InQueue(after, before[i].order_id)
  /\ \A j \in 1..Len(before), k \in 1..Len(after) :
       after[k].order_id = before[j].order_id =>
         after[k].quantity <= before[j].quantity

\* C32: in every step, at every price level of either side, an order that
\* leaves the queue or has its quantity reduced has no older order of the
\* level still in the queue afterwards, and no order that stays has a
\* larger quantity than before.
C32_OldestFirstDeparture ==
  [][ \A s \in Sides, p \in Prices :
        OldestFirst(get_orders_at_price(Book, p, s),
                    get_orders_at_price(Book', p, s)) ]_vars

\* a reduction took the two oldest orders whole and cut the third
C32_Witness ==
  /\ Updated
  /\ Len(QueueBefore) = 3
  /\ Len(QueueNow) = 1
  /\ QueueNow[1].order_id = QueueBefore[3].order_id
  /\ 0 < QueueNow[1].quantity
  /\ QueueNow[1].quantity < QueueBefore[3].quantity

\* the call is update_order(price, 0, side, ...)
ZeroUpdate(side) ==
  /\ last'.op = "update_order"
  /\ last'.quantity = 0
  /\ last'.side = side

\* C33: update_order(p, 0, side, t) changes nothing but the level at p on
\* the given side: the side's other levels, the whole opposite side and
\* next_order_id_ are as they were, no repair runs (no warning is logged,
\* no assertion is evaluated), and with no level at p the book is unchanged.
C33_RemovalFrame ==
  [][ /\ ZeroUpdate("BID") =>
           /\ bids_' = Restrict(bids_, Prices \ {last'.price})
           /\ asks_' = asks_
      /\ ZeroUpdate("ASK") =>
           /\ asks_' = Restrict(asks_, Prices \ {last'.price})
           /\ bids_' = bids_
      /\ (ZeroUpdate("BID") \/ ZeroUpdate("ASK")) =>
           /\ next_order_id_' = next_order_id_
           /\ ~stderr_warn'
           /\ ~assert_failed'
           /\ ~has_value(last'.level) => (bids_' = bids_ /\ asks_' = asks_) ]_vars

\* a level was removed by a zero quantity while another level rests in the
\* book, and the id counter is where the call found it
C33_Witness ==
  /\ Updated /\ last.quantity = 0
  /\ has_value(last.level)
  /\ LevelNow = nullopt
  /\ next_order_id_ = last.id
  /\ AllLimits # {}

\* the two kinds of event a feed carries
EventTypes == {"SNAPSHOT", "UPDATE"}

\* the line with its event_type field replaced
Retyped(l, event_type) == [l EXCEPT ![4] = event_type]

\* the book the loop body leaves for an event, from the book it found
BookAfter(book, event) ==
  [k \in {"bids_", "asks_", "next_order_id_"} |->
     UpdateResult(book, event.price, event.quantity, event.side,
                  event.exchange_ts)[k]]

\* book, signal and strategy after the loop body has run, as the n-th turn,
\* for an event
Replayed(book, strat, n, event) ==
  [book |-> BookAfter(book, event),
   signal |-> Signal(strat, BookAfter(book, event), n),
   strategy |-> StrategyAfter(strat, BookAfter(book, event), n,
                              Signal(strat, BookAfter(book, event), n))]

\* C34: in every turn of the replay loop that processes an event, the line
\* read with its event_type replaced by SNAPSHOT or by UPDATE parses to the
\* same event but for event_type, and replayed from the same book, strategy
\* and turn number it gives the book, the signal and the strategy the turn
\* has given; so sequences that differ only in event_type agree after every
\* event.  The turn is one update_order call and the id counter never goes
\* back: no event clears the book or resets the ids.
C34_EventTypeIgnored ==
  [][ events_processed' = events_processed + 1 =>
        /\ has_value(event_opt')
        /\ \A t \in EventTypes :
             /\ parse_line(Retyped(line', t)).event =
                  <<[event_opt'[1] EXCEPT !.event_type = t]>>
             /\ Replayed(Book, strategy, events_processed,
                         parse_line(Retyped(line', t)).event[1]) =
                  [book |-> Book',
                   signal |-> Signal(strategy, Book', events_processed),
                   strategy |-> strategy']
        /\ last'.op = "update_order"
        /\ next_order_id_' >= next_order_id_ ]_vars

\* a SNAPSHOT event was applied to a book that had a bid level: the level is
\* still there and the ask of the event took the next id
C34_Witness ==
  /\ has_value(event_opt)
  /\ event_opt[1].event_type = "SNAPSHOT"
  /\ Updated
  /\ last.id = 2
  /\ next_order_id_ = 3
  /\ DOMAIN bids_ # {}
  /\ DOMAIN asks_ # {}

\* risk aversions above 0: 0.00001, the default 0.1, and 5.0
PositiveRiskAversions == {Num(1, 100000), Num(1, 10), Num(5, 1)}

\* inventory limits above 0: 0.01 and the default 10.0, in units of 5e-9
PositiveInventoryLimits == {Num(Lot, 1), Num(2000000000, 1)}

\* the signal of MarketMakingStrategy(risk_aversion, inventory_limit)
\* holding the position, on the book as it is
MarketMakingSignal(risk_aversion, inventory_limit, position) ==
  MarketMakingStrategy_evaluate(
    [MarketMakingStrategy(risk_aversion, position)
       EXCEPT !.inventory_limit_ = inventory_limit],
    Book)

\* C35: on every book and for every position, the signal of a
\* MarketMakingStrategy with risk_aversion > 0 and inventory_limit > 0 is
\* -1, 0 or +1, never has the sign of the position (signal * position <= 0),
\* and is 0 when the position is 0 or the book has no mid price.
C35_NeverAddsToInventory ==
  \A g \in PositiveRiskAversions, m \in PositiveInventoryLimits,
     q \in InventoryPositions :
    /\ MarketMakingSignal(g, m, q) \in {-1, 0, 1}
    /\ MarketMakingSignal(g, m, q) * q.num <= 0
    /\ (q.num = 0 \/ ~has_value(get_mid_price(Book))) =>
         MarketMakingSignal(g, m, q) = 0

\* a two-sided book: positions of 7.0 and -7.0, not beyond 0.7 of the limit
\* 10.0, are reduced by the reservation-price test, a position of 0.01 is
\* reduced by the inventory test under the limit 0.01 and held under a risk
\* aversion of 0.00001, and no position gives no signal
C35_Witness ==
  /\ has_value(get_mid_price(Book))
  /\ MarketMakingSignal(Num(1, 10), Num(2000000000, 1), Num(1400000000, 1)) = -1
  /\ MarketMakingSignal(Num(1, 10), Num(2000000000, 1), Num(-1400000000, 1)) = 1
  /\ MarketMakingSignal(Num(1, 100000), Num(Lot, 1), Num(Lot, 1)) = -1
  /\ MarketMakingSignal(Num(1, 100000), Num(2000000000, 1), Num(Lot, 1)) = 0
  /\ MarketMakingSignal(Num(5, 1), Num(2000000000, 1), Num(0, 1)) = 0
====
